---- MODULE Spec2Model ----
(***************************************************************************)
(* Expression-template automatic differentiation (namespace Et of          *)
(* et_autodiff.h): expression graph, computation order (dfs_final_tuple),  *)
(* and GradientDescentOptimizer with its forward and backward passes.      *)
(* Values are integers: Add, Subtract, Multiply and Negate over integer    *)
(* leaves and integer learning rates are exact in double precision.        *)
(***************************************************************************)
EXTENDS Integers, Sequences, FiniteSets, TLC

(***************************************************************************)
(* Bounds of the model.                                                    *)
(***************************************************************************)
\* largest number of slots (dfs_tuple_size_v) of the root expression
MaxSize == 3
\* largest number of Minimize/Maximize calls in one run
MaxIter == 2
\* largest absolute value a Variable may reach (keeps integers in range)
MaxAbs == 1000
\* largest number of slots of the root expression in the single-pass runs
MaxDeep == 5

\* bits of one limb of a wide natural number
LimbBits == 14

\* extra quotient bits kept when a decimal literal is converted
GuardBits == 70

(***************************************************************************)
(* Leaves.  x1, x2 are VariableExpr objects, c1 a ConstantExpr, p and q    *)
(* PlaceholderExpr objects; q is a placeholder of the program that the     *)
(* root expression does not reference, so its value is read by nothing and *)
(* is not part of the state.                                               *)
(***************************************************************************)
VariableIds == {"x1", "x2"}
ConstantIds == {"c1"}
PlaceholderIds == {"p", "q"}
\* the leaves the root expression may reference
LeafIds == VariableIds \cup ConstantIds \cup {"p"}

\* the (placeholder, value) pairs the driver feeds and the learning rates it passes
FeedValues == {4, -1}
Feeds == ({"p"} \X FeedValues) \cup {<<"q", 4>>}
Rates == {2}
\* the learning rates of the single-pass runs
PassRates == {1, 2, 3}
\* leaf values at construction; a PlaceholderExpr starts at Num::zero_v
InitLeaf == [x1 |-> 2, x2 |-> -3, c1 |-> 5, p |-> 0]

(***************************************************************************)
(* Expression nodes.                                                       *)
(***************************************************************************)
ConstantExpr(id) == [kind |-> "ConstantExpr", id |-> id]
PlaceholderExpr(id) == [kind |-> "PlaceholderExpr", id |-> id]
VariableExpr(id) == [kind |-> "VariableExpr", id |-> id]
AddExpr(a, b) == [kind |-> "AddExpr", first_expr |-> a, second_expr |-> b]
MultiplyExpr(a, b) == [kind |-> "MultiplyExpr", first_expr |-> a, second_expr |-> b]
SubtractExpr(a, b) == [kind |-> "SubtractExpr", first_expr |-> a, second_expr |-> b]
NegateExpr(a) == [kind |-> "NegateExpr", first_expr |-> a]

BinaryExpr(k, a, b) == [kind |-> k, first_expr |-> a, second_expr |-> b]
BinaryKinds == {"AddExpr", "MultiplyExpr", "SubtractExpr"}
UnaryKinds == {"NegateExpr"}
TerminalKinds == {"ConstantExpr", "PlaceholderExpr", "VariableExpr"}

impl_TerminalExpr(e) == e.kind \in TerminalKinds
impl_BinaryExpr(e) == e.kind \in BinaryKinds
impl_UnaryExpr(e) == e.kind \in UnaryKinds
impl_TrainableExpr(e) == e.kind = "VariableExpr"

\* the leaves an expression may reference
Leaves ==
    {VariableExpr(v) : v \in VariableIds} \cup {ConstantExpr(c) : c \in ConstantIds}
        \cup {PlaceholderExpr("p")}

RECURSIVE ExprsOfSize(_)
ExprsOfSize(n) ==
    IF n = 1 THEN Leaves
    ELSE {NegateExpr(a) : a \in ExprsOfSize(n - 1)}
         \cup UNION {{BinaryExpr(k, a, b) :
                        k \in BinaryKinds, a \in ExprsOfSize(i), b \in ExprsOfSize(n - 1 - i)}
                     : i \in 1..(n - 2)}

Exprs == UNION {ExprsOfSize(n) : n \in 1..MaxSize}

(***************************************************************************)
(* operator(): the value of an expression on the current leaf values.      *)
(***************************************************************************)
RECURSIVE Value(_, _)
Value(e, lv) ==
    CASE impl_TerminalExpr(e) -> lv[e.id]
      [] e.kind = "AddExpr" -> Value(e.first_expr, lv) + Value(e.second_expr, lv)
      [] e.kind = "MultiplyExpr" -> Value(e.first_expr, lv) * Value(e.second_expr, lv)
      [] e.kind = "SubtractExpr" -> Value(e.first_expr, lv) - Value(e.second_expr, lv)
      [] e.kind = "NegateExpr" -> 0 - Value(e.first_expr, lv)

(***************************************************************************)
(* Computation order.                                                      *)
(***************************************************************************)
\* dfs_tuple: the sub-expressions in depth-first, children-first order
RECURSIVE dfs_tuple(_)
\* variant: an operand that occurs twice in a binary node is laid out once
dfs_tuple_once(e) ==
    IF impl_TerminalExpr(e) THEN <<e>>
    ELSE IF impl_UnaryExpr(e) THEN dfs_tuple(e.first_expr) \o <<e>>
    ELSE IF e.first_expr = e.second_expr THEN dfs_tuple(e.first_expr) \o <<e>>
    ELSE dfs_tuple(e.first_expr) \o dfs_tuple(e.second_expr) \o <<e>>

dfs_tuple(e) ==
    IF impl_TerminalExpr(e) THEN <<e>>
    ELSE IF impl_UnaryExpr(e) THEN dfs_tuple(e.first_expr) \o <<e>>
    ELSE dfs_tuple(e.first_expr) \o dfs_tuple(e.second_expr) \o <<e>>

\* std::tuple_size_v<dfs_tuple_t<E>>
dfs_tuple_size_v(e) == Len(dfs_tuple(e))

\* variant: every terminal gets the trainable node
TerminalNode_all_trainable(e) ==
    [node |-> "TerminalNode", trainable |-> TRUE, child_one_v |-> -1, child_two_v |-> -1]

\* node types of the tuple; a child index that a node type lacks is -1
TerminalNode(e) ==
    [node |-> "TerminalNode", trainable |-> impl_TrainableExpr(e),
     child_one_v |-> -1, child_two_v |-> -1]
\* variant: a unary node whose operand index is the node's own index
UnaryNode_own_index(e, I1) ==
    [node |-> "UnaryNode", trainable |-> FALSE, child_one_v |-> I1 + 1, child_two_v |-> -1]

UnaryNode(e, I1) ==
    [node |-> "UnaryNode", trainable |-> FALSE, child_one_v |-> I1, child_two_v |-> -1]
BinaryNode(e, I1, I2) ==
    [node |-> "BinaryNode", trainable |-> FALSE, child_one_v |-> I1, child_two_v |-> I2]

RECURSIVE impl_dfs_final_tuple(_, _)
\* variant: the first operand's index computed from the first operand's size
impl_dfs_final_tuple_first_size(e, I) ==
    IF impl_TerminalExpr(e) THEN <<TerminalNode(e)>>
    ELSE IF impl_UnaryExpr(e) THEN
        impl_dfs_final_tuple(e.first_expr, I - 1) \o <<UnaryNode(e, I - 2)>>
    ELSE
        impl_dfs_final_tuple(e.first_expr, I - 1 - dfs_tuple_size_v(e.first_expr))
            \o impl_dfs_final_tuple(e.second_expr, I - 1)
            \o <<BinaryNode(e, I - 2 - dfs_tuple_size_v(e.first_expr), I - 2)>>

impl_dfs_final_tuple(e, I) ==
    IF impl_TerminalExpr(e) THEN <<TerminalNode(e)>>
    ELSE IF impl_UnaryExpr(e) THEN
        impl_dfs_final_tuple(e.first_expr, I - 1) \o <<UnaryNode(e, I - 2)>>
    ELSE
        impl_dfs_final_tuple(e.first_expr, I - 1 - dfs_tuple_size_v(e.second_expr))
            \o impl_dfs_final_tuple(e.second_expr, I - 1)
            \o <<BinaryNode(e, I - 2 - dfs_tuple_size_v(e.second_expr), I - 2)>>

dfs_final_tuple_t(e) == impl_dfs_final_tuple(e, dfs_tuple_size_v(e))

\* std::get<I>: tuples are indexed from 0
Get(t, I) == t[I + 1]

(***************************************************************************)
(* State.                                                                  *)
(***************************************************************************)
VARIABLES
    expr,       \* the root expression the optimizer is bound to (_expr)
    leaf,       \* _value of every leaf object
    fed,        \* the placeholders FeedValue has been called on
    tuple,      \* _tuple: per slot _expr, _gradient and the local gradients
    result,     \* _result
    status,     \* "ok", or "crashed" after a dereference of a null _expr
    iter,       \* number of Minimize/Maximize calls so far
    last,       \* history: the last operation, its argument, the value it
                \* returned and the change it made to every Variable
    fwd         \* history: the leaves at the last forward pass

vars == <<expr, leaf, fed, tuple, result, status, iter, last, fwd>>

\* a default-constructed node: _expr nullptr, gradients Num::zero_v
NewNode == [expr |-> "nullptr", gradient |-> 0, first_local_grad |-> 0, second_local_grad |-> 0]

NewTuple(e) == [i \in 1..dfs_tuple_size_v(e) |-> NewNode]

NoDelta == [x \in VariableIds |-> 0]

Op(name, arg, ret, delta) == [op |-> name, arg |-> arg, ret |-> ret, delta |-> delta]

\* fwd: n = 1 once a ForwardPass has run; run = length (capped at 2) of the
\* latest run of ForwardPass calls with no Minimize/Maximize between them,
\* open = no Minimize/Maximize since the last ForwardPass; leaf and result
\* = the leaves read and the value stored by the last ForwardPass; prev_p =
\* the value of p at the ForwardPass before it in the same run
NoForward ==
    [n |-> 0, run |-> 0, open |-> FALSE, leaf |-> InitLeaf, prev_p |-> 0,
     result |-> 0]

Init ==
    /\ expr \in Exprs
    /\ leaf = InitLeaf
    /\ fed = {}
    /\ tuple = NewTuple(expr)
    /\ result = 0
    /\ status = "ok"
    /\ iter = 0
    /\ last = Op("construct", 0, 0, NoDelta)
    /\ fwd = NoForward

(***************************************************************************)
(* Forward pass: Eval<I>(tuple) of every expression class.                 *)
(***************************************************************************)
\* variant: local gradients added to the ones of the previous forward pass
SetLocalGrads_accumulate(t, I, ptr, g1, g2) ==
    [t EXCEPT ![I + 1] = [@ EXCEPT !.expr = ptr, !.first_local_grad = @ + g1,
                                   !.second_local_grad = @ + g2]]

SetLocalGrads(t, I, ptr, g1, g2) ==
    [t EXCEPT ![I + 1] = [@ EXCEPT !.expr = ptr, !.first_local_grad = g1,
                                   !.second_local_grad = g2]]

SetLocalGradsTerminal(t, I, ptr) == [t EXCEPT ![I + 1] = [@ EXCEPT !.expr = ptr]]

\* variant: the product's first local gradient taken from the first operand
first_local_grad_of_first(e, first_value, second_value) ==
    CASE e.kind = "AddExpr" -> 1
      [] e.kind = "MultiplyExpr" -> first_value
      [] e.kind = "SubtractExpr" -> 1
      [] e.kind = "NegateExpr" -> -1

first_local_grad_of(e, first_value, second_value) ==
    CASE e.kind = "AddExpr" -> 1
      [] e.kind = "MultiplyExpr" -> second_value
      [] e.kind = "SubtractExpr" -> 1
      [] e.kind = "NegateExpr" -> -1

\* variant: the difference's second local gradient without its sign
second_local_grad_of_unsigned(e, first_value, second_value) ==
    CASE e.kind = "AddExpr" -> 1
      [] e.kind = "MultiplyExpr" -> first_value
      [] e.kind = "SubtractExpr" -> 1

second_local_grad_of(e, first_value, second_value) ==
    CASE e.kind = "AddExpr" -> 1
      [] e.kind = "MultiplyExpr" -> first_value
      [] e.kind = "SubtractExpr" -> -1

\* variant: the difference taken the other way round
Apply_reversed(e, first_value, second_value) ==
    CASE e.kind = "AddExpr" -> first_value + second_value
      [] e.kind = "MultiplyExpr" -> first_value * second_value
      [] e.kind = "SubtractExpr" -> second_value - first_value
      [] e.kind = "NegateExpr" -> 0 - first_value

Apply(e, first_value, second_value) ==
    CASE e.kind = "AddExpr" -> first_value + second_value
      [] e.kind = "MultiplyExpr" -> first_value * second_value
      [] e.kind = "SubtractExpr" -> first_value - second_value
      [] e.kind = "NegateExpr" -> 0 - first_value

RECURSIVE Eval(_, _, _, _, _)
Eval(e, I, types, t, lv) ==
    IF impl_TerminalExpr(e) THEN
        [value |-> lv[e.id], tuple |-> SetLocalGradsTerminal(t, I, e.id)]
    ELSE IF impl_UnaryExpr(e) THEN
        LET r1 == Eval(e.first_expr, Get(types, I).child_one_v, types, t, lv)
        IN  [value |-> Apply(e, r1.value, 0),
             tuple |-> SetLocalGrads(r1.tuple, I, "op",
                                     first_local_grad_of(e, r1.value, 0), 0)]
    ELSE
        LET r1 == Eval(e.first_expr, Get(types, I).child_one_v, types, t, lv)
            r2 == Eval(e.second_expr, Get(types, I).child_two_v, types, r1.tuple, lv)
        IN  [value |-> Apply(e, r1.value, r2.value),
             tuple |-> SetLocalGrads(r2.tuple, I, "op",
                                     first_local_grad_of(e, r1.value, r2.value),
                                     second_local_grad_of(e, r1.value, r2.value))]

\* PlaceholderExpr::FeedValue on the leaves of the expression
Feed(lv, pl, v) == IF pl \in DOMAIN lv THEN [lv EXCEPT ![pl] = v] ELSE lv

FeedValue(pl, v) ==
    /\ status = "ok"
    /\ leaf' = Feed(leaf, pl, v)
    /\ fed' = fed \cup ({pl} \cap LeafIds)
    /\ last' = Op("FeedValue", 0, 0, NoDelta)
    /\ UNCHANGED <<expr, tuple, result, status, iter, fwd>>

\* GradientDescentOptimizer::ForwardPass(H(pl, v))
ForwardPass(pl, v) ==
    /\ status = "ok"
    /\ LET lv == Feed(leaf, pl, v)
           r == Eval(expr, dfs_tuple_size_v(expr) - 1, dfs_final_tuple_t(expr), tuple, lv)
       IN  /\ leaf' = lv
           /\ fed' = fed \cup ({pl} \cap LeafIds)
           /\ tuple' = r.tuple
           /\ result' = r.value
           /\ fwd' = [n |-> 1, run |-> IF fwd.open THEN 2 ELSE 1, open |-> TRUE,
                      leaf |-> lv,
                      prev_p |-> IF fwd.open THEN fwd.leaf["p"] ELSE lv["p"],
                      result |-> r.value]
    /\ last' = Op("ForwardPass", 0, 0, NoDelta)
    /\ UNCHANGED <<expr, status, iter>>

(***************************************************************************)
(* Backward pass.                                                          *)
(***************************************************************************)
AddMyGrad(t, I, addition) == [t EXCEPT ![I + 1].gradient = @ + addition]

\* variant: the gradient is kept at the end of the backward step
ResetGrad_keep(t, I) == t

\* variant: terminal slots (no local gradients) keep their gradient
ResetGrad_not_terminal(t, I) ==
    IF Get(t, I).first_local_grad = 0 /\ Get(t, I).second_local_grad = 0
    THEN t
    ELSE [t EXCEPT ![I + 1].gradient = 0]

ResetGrad(t, I) == [t EXCEPT ![I + 1].gradient = 0]

\* variant: only the first operand receives the gradient
SetChildGrads_first_only(t, I, types) ==
    LET n == Get(types, I)
        me == Get(t, I)
    IN  AddMyGrad(t, n.child_one_v, me.gradient * me.first_local_grad)

\* variant: the local gradients are taken at the leaves' current values
SetChildGrads_current(t, I, types) ==
    LET n == Get(types, I)
        me == Get(t, I)
        e == Get(dfs_tuple(expr), I)
        first_value == Value(e.first_expr, leaf)
        second_value == IF n.node = "BinaryNode" THEN Value(e.second_expr, leaf) ELSE 0
        t1 == AddMyGrad(t, n.child_one_v,
                        me.gradient * first_local_grad_of(e, first_value, second_value))
    IN  IF n.node = "BinaryNode"
        THEN AddMyGrad(t1, n.child_two_v,
                       me.gradient * second_local_grad_of(e, first_value, second_value))
        ELSE t1

\* BinaryNode::SetChildGrads and UnaryNode::SetChildGrads
SetChildGrads(t, I, types) ==
    LET n == Get(types, I)
        me == Get(t, I)
        t1 == AddMyGrad(t, n.child_one_v, me.gradient * me.first_local_grad)
    IN  IF n.node = "BinaryNode"
        THEN AddMyGrad(t1, n.child_two_v, me.gradient * me.second_local_grad)
        ELSE t1

\* the outcomes of _expr->AddDelta(...) through a null _expr
NullDeref == {"crash", "skip"}

\* TerminalNode (trainable)::UpdateVariable, with VariableExpr::AddDelta
UpdateVariable(st, I, learning_rate, ub) ==
    LET me == Get(st.tuple, I)
    IN  IF me.expr = "nullptr"
        THEN (IF ub = "crash" THEN [st EXCEPT !.status = "crashed"] ELSE st)
        ELSE [st EXCEPT !.leaf[me.expr] = @ + learning_rate * me.gradient]

RECURSIVE impl_BackwardPass(_, _, _, _, _)
impl_BackwardPass(st, I, learning_rate, types, ub) ==
    LET n == Get(types, I)
        s1 == IF n.trainable THEN UpdateVariable(st, I, learning_rate, ub)
              ELSE IF n.node \in {"UnaryNode", "BinaryNode"}
              THEN [st EXCEPT !.tuple = SetChildGrads(st.tuple, I, types)]
              ELSE st
        s2 == [s1 EXCEPT !.tuple = ResetGrad(s1.tuple, I)]
    IN  IF s1.status = "crashed" THEN s1
        ELSE IF I > 0 THEN impl_BackwardPass(s2, I - 1, learning_rate, types, ub)
        ELSE s2

\* the root's AddMyGrad(identity_v) followed by _impl_BackwardPass<size - 1>
BackwardPass(learning_rate, ub) ==
    LET root == dfs_tuple_size_v(expr) - 1
    IN  impl_BackwardPass([tuple |-> AddMyGrad(tuple, root, 1), leaf |-> leaf, status |-> "ok"],
                          root, learning_rate, dfs_final_tuple_t(expr), ub)

InRange(lv) == \A x \in VariableIds : lv[x] <= MaxAbs /\ lv[x] >= 0 - MaxAbs

Backward(name, rate, signed_rate, ub) ==
    /\ status = "ok"
    /\ iter < MaxIter
    /\ LET st == BackwardPass(signed_rate, ub)
       IN  /\ InRange(st.leaf)
           /\ leaf' = st.leaf
           /\ tuple' = st.tuple
           /\ status' = st.status
           /\ last' = Op(name, rate, 0, [x \in VariableIds |-> st.leaf[x] - leaf[x]])
    /\ iter' = iter + 1
    /\ fwd' = [fwd EXCEPT !.open = FALSE]
    /\ UNCHANGED <<expr, fed, result>>

\* GradientDescentOptimizer::Minimize
Minimize(learning_rate, ub) == Backward("Minimize", learning_rate, 0 - learning_rate, ub)

\* GradientDescentOptimizer::Maximize
Maximize(learning_rate, ub) == Backward("Maximize", learning_rate, learning_rate, ub)

\* variant: the pre-result recomputed from the live expression
GetPreResult_recomputed ==
    /\ status = "ok"
    /\ last' = Op("GetPreResult", 0, Value(expr, leaf), NoDelta)
    /\ UNCHANGED <<expr, leaf, fed, tuple, result, status, iter, fwd>>

\* GradientDescentOptimizer::GetPreResult
GetPreResult ==
    /\ status = "ok"
    /\ last' = Op("GetPreResult", 0, result, NoDelta)
    /\ UNCHANGED <<expr, leaf, fed, tuple, result, status, iter, fwd>>

\* variant: the post-result read from the stored _result
GetPostResult_stored ==
    /\ status = "ok"
    /\ last' = Op("GetPostResult", 0, result, NoDelta)
    /\ UNCHANGED <<expr, leaf, fed, tuple, result, status, iter, fwd>>

\* variant: the recomputed value is also stored as the pre-result
GetPostResult_storing ==
    /\ status = "ok"
    /\ last' = Op("GetPostResult", 0, Value(expr, leaf), NoDelta)
    /\ result' = Value(expr, leaf)
    /\ UNCHANGED <<expr, leaf, fed, tuple, status, iter, fwd>>

\* GradientDescentOptimizer::GetPostResult
GetPostResult ==
    /\ status = "ok"
    /\ last' = Op("GetPostResult", 0, Value(expr, leaf), NoDelta)
    /\ UNCHANGED <<expr, leaf, fed, tuple, result, status, iter, fwd>>

\* a null _expr is met only in a slot that no forward pass has written
UbChoices == IF \E i \in DOMAIN tuple : tuple[i].expr = "nullptr" THEN NullDeref ELSE {"crash"}

Next ==
    \/ \E v \in FeedValues : FeedValue("p", v)
    \/ \E f \in Feeds : ForwardPass(f[1], f[2])
    \/ \E r \in Rates, ub \in UbChoices : Minimize(r, ub)
    \/ \E r \in Rates, ub \in UbChoices : Maximize(r, ub)
    \/ GetPreResult
    \/ GetPostResult

Spec == Init /\ [][Next]_vars

(***************************************************************************)
(* Single-pass runs: any expression of up to MaxDeep slots, one            *)
(* ForwardPass, then one Minimize or Maximize.                             *)
(***************************************************************************)
PassExprs == UNION {ExprsOfSize(n) : n \in 1..MaxDeep}

PassInit ==
    /\ expr \in PassExprs
    /\ leaf = InitLeaf
    /\ fed = {}
    /\ tuple = NewTuple(expr)
    /\ result = 0
    /\ status = "ok"
    /\ iter = 0
    /\ last = Op("construct", 0, 0, NoDelta)
    /\ fwd = NoForward

PassNext ==
    \/ \E f \in Feeds : fwd.n = 0 /\ ForwardPass(f[1], f[2])
    \/ \E r \in PassRates : fwd.n = 1 /\ iter = 0 /\ Minimize(r, "crash")
    \/ \E r \in PassRates : fwd.n = 1 /\ iter = 0 /\ Maximize(r, "crash")

PassSpec == PassInit /\ [][PassNext]_vars

\* one ForwardPass, then Minimize / Maximize calls with no ForwardPass between
RepeatNext ==
    \/ \E f \in Feeds : fwd.n = 0 /\ ForwardPass(f[1], f[2])
    \/ \E r \in Rates : fwd.n = 1 /\ Minimize(r, "crash")
    \/ \E r \in Rates : fwd.n = 1 /\ Maximize(r, "crash")

RepeatSpec == PassInit /\ [][RepeatNext]_vars

(***************************************************************************)
(* The backward pass of namespace Et, one _impl_BackwardPass<I> at a time: *)
(* a ForwardPass, the entry of Minimize/Maximize (the root's AddMyGrad),   *)
(* then the instantiations I = size - 1 down to 0.  Here iter is the index *)
(* I of the instantiation that runs next, status is "running" during the   *)
(* walk, and fwd also records the signed rate, whether a Variable's value  *)
(* has changed in this pass, the slots processed and their number.         *)
(***************************************************************************)
\* variant: the walk continues two slots below
NextSlot_skipping(I) == I - 2

\* _impl_BackwardPass<I> calls _impl_BackwardPass<I - 1>
NextSlot(I) == I - 1

\* Minimize / Maximize up to the call of _impl_BackwardPass<size - 1>
S_Begin(name, learning_rate, signed_rate) ==
    /\ status = "ok"
    /\ fwd.n = 1
    /\ fwd.open
    /\ tuple' = AddMyGrad(tuple, dfs_tuple_size_v(expr) - 1, 1)
    /\ iter' = dfs_tuple_size_v(expr) - 1
    /\ status' = "running"
    /\ fwd' = [rate |-> signed_rate, changed |-> FALSE, processed |-> {}, steps |-> 0]
                  @@ [fwd EXCEPT !.open = FALSE]
    /\ last' = Op(name, learning_rate, 0, NoDelta)
    /\ UNCHANGED <<expr, leaf, fed, result>>

\* _impl_BackwardPass<I> without the instantiations it calls
S_impl_BackwardPass ==
    /\ status = "running"
    /\ iter >= 0
    /\ LET I == iter
           n == Get(dfs_final_tuple_t(expr), I)
           st == [tuple |-> tuple, leaf |-> leaf, status |-> "ok"]
           s1 == IF n.trainable THEN UpdateVariable(st, I, fwd.rate, "crash")
                 ELSE IF n.node \in {"UnaryNode", "BinaryNode"}
                 THEN [st EXCEPT !.tuple = SetChildGrads(st.tuple, I, dfs_final_tuple_t(expr))]
                 ELSE st
           did == IF n.trainable THEN "UpdateVariable"
                  ELSE IF n.node \in {"UnaryNode", "BinaryNode"} THEN "SetChildGrads"
                  ELSE "ResetGrad"
       IN  /\ InRange(s1.leaf)
           /\ leaf' = s1.leaf
           /\ tuple' = ResetGrad(s1.tuple, I)
           /\ last' = Op(did, I, Get(tuple, I).gradient,
                         [x \in VariableIds |-> s1.leaf[x] - leaf[x]])
           /\ fwd' = [fwd EXCEPT !.changed = @ \/ (s1.leaf # leaf),
                                 !.processed = @ \cup {I},
                                 !.steps = @ + 1]
           /\ iter' = NextSlot(I)
           /\ status' = IF I > 0 THEN "running" ELSE "ok"
    /\ UNCHANGED <<expr, fed, result>>



StepNext ==
    \/ \E f \in Feeds : fwd.n = 0 /\ ForwardPass(f[1], f[2])
    \/ \E r \in Rates : S_Begin("Minimize", r, 0 - r)
    \/ \E r \in Rates : S_Begin("Maximize", r, r)
    \/ S_impl_BackwardPass

StepSpec == PassInit /\ [][StepNext]_vars

(***************************************************************************)
(* Namespace Et, every walk one slot at a time: the computation order is   *)
(* built slot by slot (status "building"), ForwardPass calls SetLocalGrads *)
(* slot by slot (status "forward"), Minimize / Maximize run one            *)
(* _impl_BackwardPass<I> per step (status "running").  fwd also counts the *)
(* slots built (built), and lists the slots a ForwardPass has still to     *)
(* write (todo) and has written (writes).                                  *)
(***************************************************************************)
\* variant: a unary node writes its slot before and after its operand
RECURSIVE EvalWrites_revisiting(_, _, _)
EvalWrites_revisiting(e, I, types) ==
    IF impl_TerminalExpr(e) THEN <<I>>
    ELSE IF impl_UnaryExpr(e)
    THEN <<I>> \o EvalWrites_revisiting(e.first_expr, Get(types, I).child_one_v, types) \o <<I>>
    ELSE EvalWrites_revisiting(e.first_expr, Get(types, I).child_one_v, types)
             \o EvalWrites_revisiting(e.second_expr, Get(types, I).child_two_v, types) \o <<I>>

\* the slots in the order in which Eval<I> reaches their SetLocalGrads
RECURSIVE EvalWrites(_, _, _)
EvalWrites(e, I, types) ==
    IF impl_TerminalExpr(e) THEN <<I>>
    ELSE IF impl_UnaryExpr(e)
    THEN EvalWrites(e.first_expr, Get(types, I).child_one_v, types) \o <<I>>
    ELSE EvalWrites(e.first_expr, Get(types, I).child_one_v, types)
             \o EvalWrites(e.second_expr, Get(types, I).child_two_v, types) \o <<I>>

NoWalk == [built |-> 0, todo |-> <<>>, writes |-> <<>>] @@ NoForward

\* dfs_tuple / _impl_dfs_final_tuple: the next element of the order
W_dfs_tuple ==
    /\ status = "building"
    /\ Len(tuple) < dfs_tuple_size_v(expr)
    /\ tuple' = Append(tuple, NewNode)
    /\ fwd' = [fwd EXCEPT !.built = @ + 1]
    /\ status' = IF Len(tuple) + 1 = dfs_tuple_size_v(expr) THEN "ok" ELSE "building"
    /\ last' = Op("dfs_tuple", Len(tuple), 0, NoDelta)
    /\ UNCHANGED <<expr, leaf, fed, result, iter>>

\* GradientDescentOptimizer::ForwardPass up to the call of the root's Eval
W_ForwardPass(pl, v) ==
    /\ status = "ok"
    /\ fwd.n = 0
    /\ fwd.todo = <<>>
    /\ fwd.writes = <<>>
    /\ leaf' = Feed(leaf, pl, v)
    /\ fed' = fed \cup ({pl} \cap LeafIds)
    /\ fwd' = [fwd EXCEPT !.todo = EvalWrites(expr, dfs_tuple_size_v(expr) - 1,
                                              dfs_final_tuple_t(expr)),
                          !.leaf = Feed(leaf, pl, v)]
    /\ status' = "forward"
    /\ last' = Op("ForwardPass", 0, 0, NoDelta)
    /\ UNCHANGED <<expr, tuple, result, iter>>

\* one SetLocalGrads call of the running Eval; the last one is followed by
\* the assignment of _result
W_Eval ==
    /\ status = "forward"
    /\ fwd.todo # <<>>
    /\ LET I == Head(fwd.todo)
           r == Eval(expr, dfs_tuple_size_v(expr) - 1, dfs_final_tuple_t(expr), tuple, leaf)
           more == Tail(fwd.todo) # <<>>
       IN  /\ tuple' = [tuple EXCEPT ![I + 1] = Get(r.tuple, I)]
           /\ result' = IF more THEN result ELSE r.value
           /\ status' = IF more THEN "forward" ELSE "ok"
           /\ fwd' = [fwd EXCEPT !.todo = Tail(@), !.writes = Append(@, I),
                                 !.n = IF more THEN @ ELSE 1,
                                 !.run = IF more THEN @ ELSE 1,
                                 !.open = ~more,
                                 !.result = IF more THEN @ ELSE r.value]
           /\ last' = Op("Eval", I, 0, NoDelta)
    /\ UNCHANGED <<expr, leaf, fed, iter>>

\* the walks depend on the shape of the expression and on which leaves are
\* trainable: one Variable and one Placeholder give every case
WalkLeaves == {"x1", "p"}
WalkExprs ==
    {e \in PassExprs :
        \A i \in DOMAIN dfs_tuple(e) :
            impl_TerminalExpr(dfs_tuple(e)[i]) => dfs_tuple(e)[i].id \in WalkLeaves}

WalkInit ==
    /\ expr \in WalkExprs
    /\ leaf = InitLeaf
    /\ fed = {}
    /\ tuple = <<>>
    /\ result = 0
    /\ status = "building"
    /\ iter = 0
    /\ last = Op("construct", 0, 0, NoDelta)
    /\ fwd = NoWalk

WalkNext ==
    \/ W_dfs_tuple
    \/ \E f \in Feeds : W_ForwardPass(f[1], f[2])
    \/ W_Eval
    \/ \E r \in Rates : S_Begin("Minimize", r, 0 - r)
    \/ \E r \in Rates : S_Begin("Maximize", r, r)
    \/ S_impl_BackwardPass

WalkSpec == WalkInit /\ [][WalkNext]_vars

\* the calls run on the calling thread: a walk that can step does step
WalkFair == WalkSpec /\ WF_vars(W_dfs_tuple \/ W_Eval \/ S_impl_BackwardPass)

(***************************************************************************)
(* Namespace Et_test: AddExpr over the three terminals, ExprHolder tuple,  *)
(* and its GradientDescentOptimizer.  The state is the same; a slot's      *)
(* gradient is the _global_gradient of the AddExpr the holder points to    *)
(* (every operation node is a distinct object, as in C1 + X1 + P), and fed *)
(* is the set of placeholders whose std::optional holds a value.           *)
(***************************************************************************)
RECURSIVE AddOnly(_)
AddOnly(e) ==
    IF impl_TerminalExpr(e) THEN TRUE
    ELSE e.kind = "AddExpr" /\ AddOnly(e.first_expr) /\ AddOnly(e.second_expr)

\* is_operation_expr_v<E> is required of the root
TestExprs == {e \in PassExprs : AddOnly(e) /\ ~impl_TerminalExpr(e)}

\* the two orders in which the operands of + may be evaluated
OperandOrders == {"first_second", "second_first"}

\* ConstantExpr / PlaceholderExpr / VariableExpr / AddExpr ::ForwardPass<I>
RECURSIVE TestForwardPass(_, _, _, _, _)
TestForwardPass(e, I, types, t, order) ==
    IF impl_TerminalExpr(e) THEN
        IF e.kind = "PlaceholderExpr" /\ e.id \notin fed
        THEN [tuple |-> SetLocalGradsTerminal(t, I, e.id), thrown |-> TRUE, value |-> 0]
        ELSE [tuple |-> SetLocalGradsTerminal(t, I, e.id), thrown |-> FALSE,
              value |-> leaf[e.id]]
    ELSE
        LET t1 == SetLocalGradsTerminal(t, I, "op")
            c1 == Get(types, I).child_one_v
            c2 == Get(types, I).child_two_v
            ea == IF order = "first_second" THEN e.first_expr ELSE e.second_expr
            eb == IF order = "first_second" THEN e.second_expr ELSE e.first_expr
            ia == IF order = "first_second" THEN c1 ELSE c2
            ib == IF order = "first_second" THEN c2 ELSE c1
            ra == TestForwardPass(ea, ia, types, t1, order)
            rb == TestForwardPass(eb, ib, types, ra.tuple, order)
        IN  IF ra.thrown THEN ra
            ELSE IF rb.thrown THEN rb
            ELSE [tuple |-> rb.tuple, thrown |-> FALSE, value |-> ra.value + rb.value]

\* Et_test::GradientDescentOptimizer::FeedPlaceholders
T_FeedPlaceholders(pl, v) ==
    /\ status # "crashed"
    /\ leaf' = Feed(leaf, pl, v)
    /\ fed' = fed \cup ({pl} \cap LeafIds)
    /\ status' = "ok"
    /\ last' = Op("FeedPlaceholders", 0, 0, NoDelta)
    /\ UNCHANGED <<expr, tuple, result, iter, fwd>>

\* variant: a forward pass that consumes the placeholder's value
T_ForwardPass_consuming(order) ==
    /\ status # "crashed"
    /\ LET r == TestForwardPass(expr, dfs_tuple_size_v(expr) - 1, dfs_final_tuple_t(expr),
                                tuple, order)
       IN  /\ tuple' = r.tuple
           /\ IF r.thrown
              THEN /\ status' = "bad_optional_access"
                   /\ UNCHANGED <<result, fwd>>
              ELSE /\ status' = "ok"
                   /\ result' = r.value
                   /\ fwd' = [n |-> 1, run |-> IF fwd.open THEN 2 ELSE 1, open |-> TRUE,
                              leaf |-> leaf,
                              prev_p |-> IF fwd.open THEN fwd.leaf["p"] ELSE leaf["p"],
                              result |-> r.value]
    /\ last' = Op("ForwardPass", 0, 0, NoDelta)
    /\ fed' = fed \ {"p"}
    /\ UNCHANGED <<expr, leaf, iter>>

\* variant: a pass that throws has already seeded the root's gradient
T_ForwardPass_seeding(order) ==
    /\ status # "crashed"
    /\ LET r == TestForwardPass(expr, dfs_tuple_size_v(expr) - 1, dfs_final_tuple_t(expr),
                                tuple, order)
       IN  /\ IF r.thrown
              THEN /\ status' = "bad_optional_access"
                   /\ tuple' = AddMyGrad(r.tuple, dfs_tuple_size_v(expr) - 1, 1)
                   /\ UNCHANGED <<result, fwd>>
              ELSE /\ status' = "ok"
                   /\ tuple' = r.tuple
                   /\ result' = r.value
                   /\ fwd' = [n |-> 1, run |-> IF fwd.open THEN 2 ELSE 1, open |-> TRUE,
                              leaf |-> leaf,
                              prev_p |-> IF fwd.open THEN fwd.leaf["p"] ELSE leaf["p"],
                              result |-> r.value]
    /\ last' = Op("ForwardPass", 0, 0, NoDelta)
    /\ UNCHANGED <<expr, leaf, fed, iter>>

\* Et_test::GradientDescentOptimizer::ForwardPass
T_ForwardPass(order) ==
    /\ status # "crashed"
    /\ LET r == TestForwardPass(expr, dfs_tuple_size_v(expr) - 1, dfs_final_tuple_t(expr),
                                tuple, order)
       IN  /\ tuple' = r.tuple
           /\ IF r.thrown
              THEN /\ status' = "bad_optional_access"
                   /\ UNCHANGED <<result, fwd>>
              ELSE /\ status' = "ok"
                   /\ result' = r.value
                   /\ fwd' = [n |-> 1, run |-> IF fwd.open THEN 2 ELSE 1, open |-> TRUE,
                              leaf |-> leaf,
                              prev_p |-> IF fwd.open THEN fwd.leaf["p"] ELSE leaf["p"],
                              result |-> r.value]
    /\ last' = Op("ForwardPass", 0, 0, NoDelta)
    /\ UNCHANGED <<expr, leaf, fed, iter>>

\* AddExpr::BackwardPass on the object of slot I: AddGradient on each operand
\* that is trainable (an AddExpr or a VariableExpr), then ResetGradient
TestAddGradient(st, child, I, addition) ==
    IF child.kind = "AddExpr" THEN [st EXCEPT !.tuple = AddMyGrad(st.tuple, I, addition)]
    ELSE IF child.kind = "VariableExpr" THEN [st EXCEPT !.leaf[child.id] = @ + addition]
    ELSE st

RECURSIVE Test_BackwardPass(_, _, _, _)
Test_BackwardPass(st, I, types, order) ==
    LET e == Get(order, I)
        g == Get(st.tuple, I).gradient
        s1 == TestAddGradient(st, e.first_expr, Get(types, I).child_one_v, g)
        s2 == TestAddGradient(s1, e.second_expr, Get(types, I).child_two_v, g)
        s3 == IF impl_TerminalExpr(e) THEN st
              ELSE [s2 EXCEPT !.tuple = ResetGrad(s2.tuple, I)]
    IN  IF I > 0 THEN Test_BackwardPass(s3, I - 1, types, order) ELSE s3

\* _InitializeGradients<0>, the root's AddGradient(seed), _BackwardPass<size - 1>
TestBackward(name, rate, seed, ub) ==
    /\ status # "crashed"
    /\ iter < MaxIter
    /\ iter' = iter + 1
    /\ fwd' = [fwd EXCEPT !.open = FALSE]
    /\ IF \E i \in DOMAIN tuple : tuple[i].expr = "nullptr" /\ ~impl_TerminalExpr(dfs_tuple(expr)[i])
       THEN \* GetExpr() dereferences a null _expr
            /\ status' = IF ub = "crash" THEN "crashed" ELSE "ok"
            /\ last' = Op(name, rate, 0, NoDelta)
            /\ UNCHANGED <<leaf, tuple>>
       ELSE LET root == dfs_tuple_size_v(expr) - 1
                zeroed == [i \in DOMAIN tuple |-> [tuple[i] EXCEPT !.gradient = 0]]
                st == Test_BackwardPass([tuple |-> AddMyGrad(zeroed, root, seed), leaf |-> leaf],
                                        root, dfs_final_tuple_t(expr), dfs_tuple(expr))
            IN  /\ InRange(st.leaf)
                /\ leaf' = st.leaf
                /\ tuple' = st.tuple
                /\ status' = "ok"
                /\ last' = Op(name, rate, 0, [x \in VariableIds |-> st.leaf[x] - leaf[x]])
    /\ UNCHANGED <<expr, fed, result>>

\* Et_test::GradientDescentOptimizer::Minimize
T_Minimize(learning_rate, ub) == TestBackward("Minimize", learning_rate, 0 - learning_rate, ub)

\* Et_test::GradientDescentOptimizer::Maximize
T_Maximize(learning_rate, ub) == TestBackward("Maximize", learning_rate, 1, ub)

\* Et_test::GradientDescentOptimizer::GetPreResult
T_GetPreResult ==
    /\ status # "crashed"
    /\ status' = "ok"
    /\ last' = Op("GetPreResult", 0, result, NoDelta)
    /\ UNCHANGED <<expr, leaf, fed, tuple, result, iter, fwd>>

\* the placeholders an expression reads
ReadsPlaceholder(e, pl) == \E i \in DOMAIN dfs_tuple(e) : dfs_tuple(e)[i] = PlaceholderExpr(pl)

\* Et_test::GradientDescentOptimizer::GetPostResult
T_GetPostResult ==
    /\ status # "crashed"
    /\ IF \E pl \in PlaceholderIds : ReadsPlaceholder(expr, pl) /\ pl \notin fed
       THEN /\ status' = "bad_optional_access"
            /\ last' = Op("GetPostResult", 0, 0, NoDelta)
       ELSE /\ status' = "ok"
            /\ last' = Op("GetPostResult", 0, Value(expr, leaf), NoDelta)
    /\ UNCHANGED <<expr, leaf, fed, tuple, result, iter, fwd>>

TestInit ==
    /\ expr \in TestExprs
    /\ leaf = InitLeaf
    /\ fed = {}
    /\ tuple = NewTuple(expr)
    /\ result = 0
    /\ status = "ok"
    /\ iter = 0
    /\ last = Op("construct", 0, 0, NoDelta)
    /\ fwd = NoForward

TestNext ==
    \/ \E v \in FeedValues : T_FeedPlaceholders("p", v)
    \/ \E order \in OperandOrders : T_ForwardPass(order)
    \/ \E r \in Rates, ub \in UbChoices : T_Minimize(r, ub)
    \/ \E r \in Rates, ub \in UbChoices : T_Maximize(r, ub)
    \/ T_GetPreResult
    \/ T_GetPostResult

TestSpec == TestInit /\ [][TestNext]_vars

(***************************************************************************)
(* Et_test's ForwardPass one slot assignment at a time.  fwd lists the     *)
(* slots the running pass has still to assign (todo) and has assigned      *)
(* (writes), the order of the operands of + and whether the pass ends in   *)
(* the throw of std::optional::value().                                    *)
(***************************************************************************)
\* the slots in the order in which ForwardPass<I> assigns them, up to a throw
RECURSIVE T_Writes(_, _, _, _)
T_Writes(e, I, types, order) ==
    IF impl_TerminalExpr(e) THEN
        [w |-> <<I>>, thrown |-> e.kind = "PlaceholderExpr" /\ e.id \notin fed]
    ELSE
        LET c1 == Get(types, I).child_one_v
            c2 == Get(types, I).child_two_v
            ra == IF order = "first_second" THEN T_Writes(e.first_expr, c1, types, order)
                  ELSE T_Writes(e.second_expr, c2, types, order)
            rb == IF order = "first_second" THEN T_Writes(e.second_expr, c2, types, order)
                  ELSE T_Writes(e.first_expr, c1, types, order)
        IN  IF ra.thrown THEN [w |-> <<I>> \o ra.w, thrown |-> TRUE]
            ELSE [w |-> <<I>> \o ra.w \o rb.w, thrown |-> rb.thrown]

NoTestWalk ==
    [todo |-> <<>>, writes |-> <<>>, order |-> "first_second", thrown |-> FALSE] @@ NoForward

TW_FeedPlaceholders(pl, v) ==
    /\ status \in {"ok", "bad_optional_access"}
    /\ fwd.n = 0
    /\ T_FeedPlaceholders(pl, v)

\* GradientDescentOptimizer::ForwardPass up to the call of the root's ForwardPass<I>
TW_ForwardPass(order) ==
    /\ status \in {"ok", "bad_optional_access"}
    /\ fwd.n = 0
    /\ LET r == T_Writes(expr, dfs_tuple_size_v(expr) - 1, dfs_final_tuple_t(expr), order)
       IN  fwd' = [fwd EXCEPT !.todo = r.w, !.writes = <<>>, !.order = order,
                              !.thrown = r.thrown]
    /\ status' = "forward"
    /\ last' = Op("ForwardPass", 0, 0, NoDelta)
    /\ UNCHANGED <<expr, leaf, fed, tuple, result, iter>>

\* std::get<I>(container) = { this }; after the last one the pass throws or
\* assigns _pre_result
TW_Assign ==
    /\ status = "forward"
    /\ fwd.todo # <<>>
    /\ LET I == Head(fwd.todo)
           e == Get(dfs_tuple(expr), I)
           more == Tail(fwd.todo) # <<>>
           r == TestForwardPass(expr, dfs_tuple_size_v(expr) - 1, dfs_final_tuple_t(expr),
                                tuple, fwd.order)
       IN  /\ tuple' = SetLocalGradsTerminal(tuple, I, IF impl_TerminalExpr(e) THEN e.id ELSE "op")
           /\ status' = IF more THEN "forward"
                        ELSE IF fwd.thrown THEN "bad_optional_access" ELSE "ok"
           /\ result' = IF more \/ fwd.thrown THEN result ELSE r.value
           /\ fwd' = [fwd EXCEPT !.todo = Tail(@), !.writes = Append(@, I),
                                 !.n = IF more \/ fwd.thrown THEN @ ELSE 1,
                                 !.open = IF more \/ fwd.thrown THEN @ ELSE TRUE,
                                 !.result = IF more \/ fwd.thrown THEN @ ELSE r.value]
           /\ last' = Op("ForwardPass<I>", I, 0, NoDelta)
    /\ UNCHANGED <<expr, leaf, fed, iter>>

TestWalkInit ==
    /\ expr \in TestExprs
    /\ leaf = InitLeaf
    /\ fed = {}
    /\ tuple = NewTuple(expr)
    /\ result = 0
    /\ status = "ok"
    /\ iter = 0
    /\ last = Op("construct", 0, 0, NoDelta)
    /\ fwd = NoTestWalk

TestWalkNext ==
    \/ \E v \in FeedValues : TW_FeedPlaceholders("p", v)
    \/ \E order \in OperandOrders : TW_ForwardPass(order)
    \/ TW_Assign

TestWalkSpec == TestWalkInit /\ [][TestWalkNext]_vars

(***************************************************************************)
(* Namespace et: every operation node holds its operands as const&         *)
(* (mFirstExpr, mSecondExpr).  In  auto b = <expression>;  the nodes the   *)
(* operators return for the inner operations are temporaries, destroyed at *)
(* the end of the declaration; (<expression>)() is evaluated while they    *)
(* are alive.  Here tuple records, per node in children-first order,       *)
(* whether the object is alive, and leaf holds the constants' values.      *)
(***************************************************************************)
et_ConstantIds == {"x", "y", "z"}
et_Values == [x |-> 4, y |-> 2, z |-> -3]

RECURSIVE et_ExprsOfSize(_)
et_ExprsOfSize(n) ==
    IF n = 1 THEN {ConstantExpr(c) : c \in et_ConstantIds}
    ELSE {NegateExpr(a) : a \in et_ExprsOfSize(n - 1)}
         \cup UNION {{BinaryExpr(k, a, b) :
                        k \in BinaryKinds, a \in et_ExprsOfSize(i), b \in et_ExprsOfSize(n - 1 - i)}
                     : i \in 1..(n - 2)}

et_Exprs == UNION {et_ExprsOfSize(n) : n \in 1..MaxDeep}

\* every object alive: inside the full-expression that builds the expression
et_AllAlive(e) == [i \in 1..dfs_tuple_size_v(e) |-> [alive |-> TRUE]]

\* after  auto b = e;  the named constants and b itself are alive, the inner
\* operation nodes are destroyed
et_Stored(e) ==
    [i \in 1..dfs_tuple_size_v(e) |->
        [alive |-> impl_TerminalExpr(dfs_tuple(e)[i]) \/ i = dfs_tuple_size_v(e)]]

\* what a read through a reference to a destroyed object may do
et_Dangling == {"intact", "garbage", "crash"}
et_Garbage == {0, 7}

\* operator() of the node in slot I; g is what a destroyed node's storage yields
RECURSIVE et_Call(_, _, _, _, _, _)
et_Call(e, I, t, lv, ub, g) ==
    IF ~Get(t, I).alive /\ ub = "garbage" THEN g
    ELSE IF impl_TerminalExpr(e) THEN lv[e.id]
    ELSE IF impl_UnaryExpr(e) THEN 0 - et_Call(e.first_expr, I - 1, t, lv, ub, g)
    ELSE LET first_value == et_Call(e.first_expr, I - 1 - dfs_tuple_size_v(e.second_expr),
                                    t, lv, ub, g)
             second_value == et_Call(e.second_expr, I - 1, t, lv, ub, g)
         IN  CASE e.kind = "AddExpr" -> first_value + second_value
               [] e.kind = "SubtractExpr" -> first_value - second_value
               [] e.kind = "MultiplyExpr" -> first_value * second_value

\* (expression)(): built and called in one full-expression
et_CallInPlace ==
    /\ last.op = "construct"
    /\ last' = Op("operator()", 0,
                  et_Call(expr, dfs_tuple_size_v(expr) - 1, tuple, leaf, "intact", 0), NoDelta)
    /\ iter' = iter + 1
    /\ UNCHANGED <<expr, leaf, fed, tuple, result, status, fwd>>

\* auto b = expression;
et_Declare ==
    /\ last.op = "construct"
    /\ tuple' = et_Stored(expr)
    /\ last' = Op("declare", 0, 0, NoDelta)
    /\ UNCHANGED <<expr, leaf, fed, result, status, iter, fwd>>

\* b()
et_CallStored(ub, g) ==
    /\ last.op \in {"declare", "b()"}
    /\ status = "ok"
    /\ iter < MaxIter
    /\ iter' = iter + 1
    /\ IF ub = "crash" /\ \E i \in DOMAIN tuple : ~tuple[i].alive
       THEN /\ status' = "crashed"
            /\ last' = Op("b()", 0, 0, NoDelta)
       ELSE /\ status' = "ok"
            /\ last' = Op("b()", 0,
                          et_Call(expr, dfs_tuple_size_v(expr) - 1, tuple, leaf, ub, g), NoDelta)
    /\ UNCHANGED <<expr, leaf, fed, tuple, result, fwd>>

et_UbChoices ==
    IF \E i \in DOMAIN tuple : ~tuple[i].alive
    THEN (et_Dangling \X et_Garbage) ELSE {<<"intact", 0>>}

et_Init ==
    /\ expr \in et_Exprs
    /\ leaf = et_Values
    /\ fed = {}
    /\ tuple = et_AllAlive(expr)
    /\ result = 0
    /\ status = "ok"
    /\ iter = 0
    /\ last = Op("construct", 0, 0, NoDelta)
    /\ fwd = NoForward

et_Next ==
    \/ et_CallInPlace
    \/ et_Declare
    \/ \E c \in et_UbChoices : et_CallStored(c[1], c[2])

et_Spec == et_Init /\ [][et_Next]_vars

(***************************************************************************)
(* IEEE 754 binary64 arithmetic, the value type of AutodiffTest (double).  *)
(* A finite double is [s, m, e] with value (-1)^s * m * 2^e, where m is    *)
(* zero or has exactly MantBits bits.  Natural numbers wider than the      *)
(* machine integer are little-endian sequences of LimbBits-bit limbs       *)
(* without a leading zero limb.  The values of the run stay far from the   *)
(* exponent limits, so neither overflow nor subnormals occur.              *)
(***************************************************************************)
\* bits of the significand of a double
MantBits == 53

RECURSIVE Pow2(_)
Pow2(n) == IF n = 0 THEN 1 ELSE 2 * Pow2(n - 1)

Limb == Pow2(LimbBits)

RECURSIVE BTrim(_)
BTrim(a) ==
    IF a = <<>> THEN a
    ELSE IF a[Len(a)] = 0 THEN BTrim(SubSeq(a, 1, Len(a) - 1))
    ELSE a

BNat(n) == BTrim(<<n % Limb, n \div Limb>>)

RECURSIVE BAddC(_, _, _)
BAddC(a, b, c) ==
    IF a = <<>> /\ b = <<>> THEN (IF c = 0 THEN <<>> ELSE <<c>>)
    ELSE LET x == (IF a = <<>> THEN 0 ELSE Head(a)) + (IF b = <<>> THEN 0 ELSE Head(b)) + c
         IN  <<x % Limb>> \o BAddC(IF a = <<>> THEN a ELSE Tail(a),
                                   IF b = <<>> THEN b ELSE Tail(b), x \div Limb)

BAdd(a, b) == BAddC(a, b, 0)

\* a - b - c for a >= b + c
RECURSIVE BSubC(_, _, _)
BSubC(a, b, c) ==
    IF a = <<>> THEN <<>>
    ELSE LET x == Head(a) - (IF b = <<>> THEN 0 ELSE Head(b)) - c
         IN  <<IF x < 0 THEN x + Limb ELSE x>>
                 \o BSubC(Tail(a), IF b = <<>> THEN b ELSE Tail(b), IF x < 0 THEN 1 ELSE 0)

BSub(a, b) == BTrim(BSubC(a, b, 0))

\* -1, 0, 1 as a < b, a = b, a > b
RECURSIVE BCmp(_, _)
BCmp(a, b) ==
    IF Len(a) # Len(b) THEN (IF Len(a) < Len(b) THEN -1 ELSE 1)
    ELSE IF a = <<>> THEN 0
    ELSE IF a[Len(a)] # b[Len(b)] THEN (IF a[Len(a)] < b[Len(b)] THEN -1 ELSE 1)
    ELSE BCmp(SubSeq(a, 1, Len(a) - 1), SubSeq(b, 1, Len(b) - 1))

\* a * k + c for k < Limb
RECURSIVE BMulSmall(_, _, _)
BMulSmall(a, k, c) ==
    IF a = <<>> THEN (IF c = 0 THEN <<>> ELSE <<c>>)
    ELSE LET x == Head(a) * k + c
         IN  <<x % Limb>> \o BMulSmall(Tail(a), k, x \div Limb)

RECURSIVE BMul(_, _)
BMul(a, b) ==
    IF a = <<>> \/ b = <<>> THEN <<>>
    ELSE BAdd(BMulSmall(a, Head(b), 0), BTrim(<<0>> \o BMul(a, Tail(b))))

\* quotient and remainder of a by k, for k <= Limb
RECURSIVE BDivSmall(_, _)
BDivSmall(a, k) ==
    IF a = <<>> THEN [q |-> <<>>, r |-> 0]
    ELSE LET hi == BDivSmall(Tail(a), k)
             x == hi.r * Limb + Head(a)
         IN  [q |-> BTrim(<<x \div k>> \o hi.q), r |-> x % k]

\* a * 2^n
BShl(a, n) ==
    IF a = <<>> THEN <<>>
    ELSE [i \in 1..(n \div LimbBits) |-> 0] \o BMulSmall(a, Pow2(n % LimbBits), 0)

\* floor(a / 2^n)
BShr(a, n) ==
    IF Len(a) <= n \div LimbBits THEN <<>>
    ELSE BDivSmall(SubSeq(a, (n \div LimbBits) + 1, Len(a)), Pow2(n % LimbBits)).q

RECURSIVE SmallBitLen(_)
SmallBitLen(x) == IF x = 0 THEN 0 ELSE 1 + SmallBitLen(x \div 2)

BitLen(a) == IF a = <<>> THEN 0 ELSE LimbBits * (Len(a) - 1) + SmallBitLen(a[Len(a)])

BOdd(a) == a # <<>> /\ Head(a) % 2 = 1

Zero == [s |-> 0, m |-> <<>>, e |-> 0]

\* (-1)^s * M * 2^E rounded to the nearest double, ties to even
RoundNearestEven(s, M, E) ==
    IF M = <<>> THEN Zero
    ELSE LET bl == BitLen(M)
         IN  IF bl <= MantBits
             THEN [s |-> s, m |-> BShl(M, MantBits - bl), e |-> E - (MantBits - bl)]
             ELSE LET sh == bl - MantBits
                      q == BShr(M, sh)
                      c == BCmp(BSub(M, BShl(q, sh)), BShl(<<1>>, sh - 1))
                      q1 == IF c = 1 \/ (c = 0 /\ BOdd(q)) THEN BAdd(q, <<1>>) ELSE q
                  IN  IF BitLen(q1) > MantBits
                      THEN [s |-> s, m |-> BShr(q1, 1), e |-> E + sh + 1]
                      ELSE [s |-> s, m |-> q1, e |-> E + sh]

\* double operator*
FMul(a, b) ==
    IF a.m = <<>> \/ b.m = <<>> THEN Zero
    ELSE RoundNearestEven((a.s + b.s) % 2, BMul(a.m, b.m), a.e + b.e)

\* double operator+
FAdd(a, b) ==
    IF a.m = <<>> THEN b
    ELSE IF b.m = <<>> THEN a
    ELSE LET e == IF a.e < b.e THEN a.e ELSE b.e
             A == BShl(a.m, a.e - e)
             B == BShl(b.m, b.e - e)
             c == BCmp(A, B)
         IN  IF a.s = b.s THEN RoundNearestEven(a.s, BAdd(A, B), e)
             ELSE IF c = 0 THEN Zero
             ELSE IF c = 1 THEN RoundNearestEven(a.s, BSub(A, B), e)
             ELSE RoundNearestEven(b.s, BSub(B, A), e)

\* double unary operator-
FNeg(a) == IF a.m = <<>> THEN a ELSE [a EXCEPT !.s = 1 - @]

\* the double of a literal: the integer n, the decimal n / d (d <= Limb)
FromInt(n) == RoundNearestEven(IF n < 0 THEN 1 ELSE 0, BNat(IF n < 0 THEN 0 - n ELSE n), 0)

FromRatio(n, d) ==
    LET a == IF n < 0 THEN 0 - n ELSE n
        qr == BDivSmall(BShl(BNat(a), GuardBits), d)
        M == BAdd(BShl(qr.q, 1), IF qr.r # 0 THEN <<1>> ELSE <<>>)
    IN  RoundNearestEven(IF n < 0 THEN 1 ELSE 0, M, 0 - (GuardBits + 1))

\* |a| compared with |b|: -1, 0, 1
MagCmp(a, b) ==
    IF a.m = <<>> \/ b.m = <<>>
    THEN (IF a.m = b.m THEN 0 ELSE IF a.m = <<>> THEN -1 ELSE 1)
    ELSE LET e == IF a.e < b.e THEN a.e ELSE b.e
         IN  BCmp(BShl(a.m, a.e - e), BShl(b.m, b.e - e))

\* a compared with b: -1, 0, 1
FCmp(a, b) ==
    IF a.s # b.s THEN (IF a.s = 1 THEN -1 ELSE 1)
    ELSE IF a.s = 0 THEN MagCmp(a, b)
    ELSE MagCmp(b, a)

\* the exact real |a - b|, as a magnitude m * 2^e that is not rounded
Distance(a, b) ==
    LET e == IF a.e < b.e THEN a.e ELSE b.e
        A == BShl(a.m, a.e - e)
        B == BShl(b.m, b.e - e)
    IN  IF a.s # b.s THEN [m |-> BAdd(A, B), e |-> e]
        ELSE IF BCmp(A, B) = 1 THEN [m |-> BSub(A, B), e |-> e]
        ELSE [m |-> BSub(B, A), e |-> e]

(***************************************************************************)
(* AutodiffTest in binary64: the expression, the values and the loop of    *)
(* Source.cpp, ForwardPass(H(P, -6.3)).Minimize(0.01), in namespace Et.    *)
(* Here iter counts the completed iterations, fwd.leaf holds the values    *)
(* the last ForwardPass read and fwd.result the pre-result before it.      *)
(***************************************************************************)
(***************************************************************************)
(* DivideExpr and PowerExpr.  Their values are quotients, so this part     *)
(* computes with extended rationals: [k |-> "num", n, d] is the fraction   *)
(* n / d in lowest terms with d > 0, "real" a finite non-zero value that   *)
(* is not tracked (an irrational power or logarithm), "inf" an infinity    *)
(* (a non-zero value divided by zero, the logarithm of zero) and "nan" an  *)
(* invalid result (0 / 0, 0 * inf, inf - inf, the logarithm or a           *)
(* fractional power of a negative value).  A slot also records the value   *)
(* whose Inverse() its Eval took (inverse_of).                             *)
(***************************************************************************)
DivideExpr(a, b) == [kind |-> "DivideExpr", first_expr |-> a, second_expr |-> b]
PowerExpr(a, b) == [kind |-> "PowerExpr", first_expr |-> a, second_expr |-> b]

Q_Nan == [k |-> "nan"]
Q_Inf == [k |-> "inf"]
Q_Real == [k |-> "real"]

RECURSIVE GCD(_, _)
GCD(a, b) == IF b = 0 THEN a ELSE GCD(b, a % b)

Abs(n) == IF n < 0 THEN 0 - n ELSE n

\* n / d for d # 0
Q_Num(n, d) ==
    LET g == GCD(Abs(n), Abs(d))
        sgn == IF d < 0 THEN -1 ELSE 1
    IN  [k |-> "num", n |-> sgn * (n \div g), d |-> sgn * (d \div g)]

Q_Int(n) == Q_Num(n, 1)

Q_IsZero(a) == a.k = "num" /\ a.n = 0

Q_Finite(a) == a.k \in {"num", "real"}

\* operator*
Q_Mul(a, b) ==
    IF a.k = "nan" \/ b.k = "nan" THEN Q_Nan
    ELSE IF a.k = "inf" \/ b.k = "inf"
    THEN (IF Q_IsZero(a) \/ Q_IsZero(b) THEN Q_Nan ELSE Q_Inf)
    ELSE IF Q_IsZero(a) \/ Q_IsZero(b) THEN Q_Int(0)
    ELSE IF a.k = "real" \/ b.k = "real" THEN Q_Real
    ELSE Q_Num(a.n * b.n, a.d * b.d)

\* operator/
Q_Div(a, b) ==
    IF a.k = "nan" \/ b.k = "nan" THEN Q_Nan
    ELSE IF a.k = "inf" THEN (IF b.k = "inf" THEN Q_Nan ELSE Q_Inf)
    ELSE IF b.k = "inf" THEN Q_Int(0)
    ELSE IF Q_IsZero(b) THEN (IF Q_IsZero(a) THEN Q_Nan ELSE Q_Inf)
    ELSE IF Q_IsZero(a) THEN Q_Int(0)
    ELSE IF a.k = "real" \/ b.k = "real" THEN Q_Real
    ELSE Q_Num(a.n * b.d, a.d * b.n)

\* operator-
Q_Sub(a, b) ==
    IF a.k = "nan" \/ b.k = "nan" THEN Q_Nan
    ELSE IF a.k = "inf" /\ b.k = "inf" THEN Q_Nan
    ELSE IF a.k = "inf" \/ b.k = "inf" THEN Q_Inf
    ELSE IF a.k = "real" \/ b.k = "real" THEN Q_Real
    ELSE Q_Num(a.n * b.d - b.n * a.d, a.d * b.d)

\* unary operator-
Q_Neg(a) == IF a.k = "num" THEN Q_Num(0 - a.n, a.d) ELSE a

\* Scalar::Inverse: 1.0 / _value
Q_Inverse(a) == Q_Div(Q_Int(1), a)

RECURSIVE IntPow(_, _)
IntPow(n, k) == IF k = 0 THEN 1 ELSE n * IntPow(n, k - 1)

\* Num::pow (std::pow) of two fractions
Q_Pow(a, b) ==
    IF b.n = 0 THEN Q_Int(1)
    ELSE IF a.n = 0 THEN (IF b.n > 0 THEN Q_Int(0) ELSE Q_Inf)
    ELSE IF b.d = 1
    THEN (IF b.n > 0 THEN Q_Num(IntPow(a.n, b.n), IntPow(a.d, b.n))
          ELSE Q_Num(IntPow(a.d, 0 - b.n), IntPow(a.n, 0 - b.n)))
    ELSE IF a.n < 0 THEN Q_Nan
    ELSE IF a.n = a.d THEN Q_Int(1)
    ELSE Q_Real

\* Num::log (std::log) of a fraction
Q_Log(a) ==
    IF a.n = 0 THEN Q_Inf
    ELSE IF a.n < 0 THEN Q_Nan
    ELSE IF a.n = a.d THEN Q_Int(0)
    ELSE Q_Real

\* operator() of the classes used here
RECURSIVE Q_Value(_, _)
Q_Value(e, lv) ==
    CASE impl_TerminalExpr(e) -> lv[e.id]
      [] e.kind = "SubtractExpr" -> Q_Sub(Q_Value(e.first_expr, lv), Q_Value(e.second_expr, lv))
      [] e.kind = "DivideExpr" -> Q_Div(Q_Value(e.first_expr, lv), Q_Value(e.second_expr, lv))
      [] e.kind = "PowerExpr" -> Q_Pow(Q_Value(e.first_expr, lv), Q_Value(e.second_expr, lv))

Q_NewNode ==
    [expr |-> "nullptr", gradient |-> Q_Int(0), first_local_grad |-> Q_Int(0),
     second_local_grad |-> Q_Int(0), inverse_of |-> "none"]

\* SubtractExpr / DivideExpr / PowerExpr ::Eval<I>, and the terminals'
RECURSIVE Q_Eval(_, _, _, _, _)
Q_Eval(e, I, types, t, lv) ==
    IF impl_TerminalExpr(e) THEN
        [value |-> lv[e.id], tuple |-> SetLocalGradsTerminal(t, I, e.id)]
    ELSE
        LET r1 == Q_Eval(e.first_expr, Get(types, I).child_one_v, types, t, lv)
            r2 == Q_Eval(e.second_expr, Get(types, I).child_two_v, types, r1.tuple, lv)
            first_value == r1.value
            second_value == r2.value
            value == Q_Pow(first_value, second_value)
            second_value_inverse == Q_Inverse(second_value)
        IN  CASE e.kind = "SubtractExpr" ->
                   [value |-> Q_Sub(first_value, second_value),
                    tuple |-> SetLocalGrads(r2.tuple, I, "op", Q_Int(1), Q_Int(-1))]
              [] e.kind = "DivideExpr" ->
                   [value |-> Q_Div(first_value, second_value),
                    tuple |-> [SetLocalGrads(r2.tuple, I, "op", second_value_inverse,
                                   Q_Mul(Q_Mul(Q_Neg(first_value), second_value_inverse),
                                         second_value_inverse))
                                  EXCEPT ![I + 1].inverse_of = second_value]]
              [] e.kind = "PowerExpr" ->
                   [value |-> value,
                    tuple |-> [SetLocalGrads(r2.tuple, I, "op",
                                   Q_Mul(Q_Mul(second_value, value), Q_Inverse(first_value)),
                                   Q_Mul(value, Q_Log(first_value)))
                                  EXCEPT ![I + 1].inverse_of = first_value]]

\* the values of the Variables and of the Constant
Q_Values == {Q_Int(-2), Q_Int(0), Q_Num(1, 2), Q_Int(3)}

Q_Operands ==
    {VariableExpr("x1"), VariableExpr("x2"), ConstantExpr("c1"),
     SubtractExpr(VariableExpr("x1"), VariableExpr("x2"))}

Q_Exprs ==
    {DivideExpr(a, b) : a \in Q_Operands, b \in Q_Operands}
        \cup {PowerExpr(a, b) : a \in Q_Operands, b \in Q_Operands}

Q_ForwardPass ==
    /\ status = "ok"
    /\ fwd.n = 0
    /\ LET r == Q_Eval(expr, dfs_tuple_size_v(expr) - 1, dfs_final_tuple_t(expr), tuple, leaf)
       IN  /\ tuple' = r.tuple
           /\ result' = r.value
           /\ fwd' = [fwd EXCEPT !.n = 1, !.run = 1, !.open = TRUE, !.leaf = leaf,
                                 !.result = r.value]
    /\ last' = Op("ForwardPass", 0, 0, NoDelta)
    /\ UNCHANGED <<expr, leaf, fed, status, iter>>

Q_GetPostResult ==
    /\ status = "ok"
    /\ last' = Op("GetPostResult", 0, Q_Value(expr, leaf), NoDelta)
    /\ UNCHANGED <<expr, leaf, fed, tuple, result, status, iter, fwd>>

Q_Init ==
    /\ expr \in Q_Exprs
    /\ leaf \in [{"x1", "x2", "c1"} -> Q_Values]
    /\ leaf["c1"] = Q_Int(3)
    /\ fed = {}
    /\ tuple = [i \in 1..dfs_tuple_size_v(expr) |-> Q_NewNode]
    /\ result = Q_Int(0)
    /\ status = "ok"
    /\ iter = 0
    /\ last = Op("construct", 0, 0, NoDelta)
    /\ fwd = NoForward

Q_Next ==
    \/ Q_ForwardPass
    \/ Q_GetPostResult

Q_Spec == Q_Init /\ [][Q_Next]_vars

\* the iterations of AutodiffTest and of the README's loop
F_Iterations == 500

F_MaxRun == 1000

F_Y ==
    AddExpr(AddExpr(AddExpr(AddExpr(MultiplyExpr(VariableExpr("x1"), VariableExpr("x1")),
                                    MultiplyExpr(VariableExpr("x2"), VariableExpr("x2"))),
                            MultiplyExpr(ConstantExpr("c1"), VariableExpr("x1"))),
                    MultiplyExpr(ConstantExpr("c2"), VariableExpr("x2"))),
            PlaceholderExpr("p"))

F_InitLeaf ==
    [x1 |-> FromRatio(553, 100), x2 |-> FromRatio(-312, 100),
     c1 |-> FromInt(4), c2 |-> FromInt(2), p |-> Zero]

F_FeedValue == FromRatio(-63, 10)

F_Rate == FromRatio(1, 100)

F_NewNode ==
    [expr |-> "nullptr", gradient |-> Zero, first_local_grad |-> Zero,
     second_local_grad |-> Zero]

F_first_local_grad_of(e, first_value, second_value) ==
    CASE e.kind = "AddExpr" -> FromInt(1)
      [] e.kind = "MultiplyExpr" -> second_value
      [] e.kind = "SubtractExpr" -> FromInt(1)
      [] e.kind = "NegateExpr" -> FromInt(-1)

F_second_local_grad_of(e, first_value, second_value) ==
    CASE e.kind = "AddExpr" -> FromInt(1)
      [] e.kind = "MultiplyExpr" -> first_value
      [] e.kind = "SubtractExpr" -> FromInt(-1)

F_Apply(e, first_value, second_value) ==
    CASE e.kind = "AddExpr" -> FAdd(first_value, second_value)
      [] e.kind = "MultiplyExpr" -> FMul(first_value, second_value)
      [] e.kind = "SubtractExpr" -> FAdd(first_value, FNeg(second_value))
      [] e.kind = "NegateExpr" -> FNeg(first_value)

RECURSIVE F_Eval(_, _, _, _, _)
F_Eval(e, I, types, t, lv) ==
    IF impl_TerminalExpr(e) THEN
        [value |-> lv[e.id], tuple |-> SetLocalGradsTerminal(t, I, e.id)]
    ELSE IF impl_UnaryExpr(e) THEN
        LET r1 == F_Eval(e.first_expr, Get(types, I).child_one_v, types, t, lv)
        IN  [value |-> F_Apply(e, r1.value, Zero),
             tuple |-> SetLocalGrads(r1.tuple, I, "op",
                                     F_first_local_grad_of(e, r1.value, Zero), Zero)]
    ELSE
        LET r1 == F_Eval(e.first_expr, Get(types, I).child_one_v, types, t, lv)
            r2 == F_Eval(e.second_expr, Get(types, I).child_two_v, types, r1.tuple, lv)
        IN  [value |-> F_Apply(e, r1.value, r2.value),
             tuple |-> SetLocalGrads(r2.tuple, I, "op",
                                     F_first_local_grad_of(e, r1.value, r2.value),
                                     F_second_local_grad_of(e, r1.value, r2.value))]

F_AddMyGrad(t, I, addition) == [t EXCEPT ![I + 1].gradient = FAdd(@, addition)]

F_ResetGrad(t, I) == [t EXCEPT ![I + 1].gradient = Zero]

F_SetChildGrads(t, I, types) ==
    LET n == Get(types, I)
        me == Get(t, I)
        t1 == F_AddMyGrad(t, n.child_one_v, FMul(me.gradient, me.first_local_grad))
    IN  IF n.node = "BinaryNode"
        THEN F_AddMyGrad(t1, n.child_two_v, FMul(me.gradient, me.second_local_grad))
        ELSE t1

F_UpdateVariable(st, I, learning_rate) ==
    LET me == Get(st.tuple, I)
    IN  [st EXCEPT !.leaf[me.expr] = FAdd(@, FMul(learning_rate, me.gradient))]

RECURSIVE F_impl_BackwardPass(_, _, _, _)
F_impl_BackwardPass(st, I, learning_rate, types) ==
    LET n == Get(types, I)
        s1 == IF n.trainable THEN F_UpdateVariable(st, I, learning_rate)
              ELSE IF n.node \in {"UnaryNode", "BinaryNode"}
              THEN [st EXCEPT !.tuple = F_SetChildGrads(st.tuple, I, types)]
              ELSE st
        s2 == [s1 EXCEPT !.tuple = F_ResetGrad(s1.tuple, I)]
    IN  IF I > 0 THEN F_impl_BackwardPass(s2, I - 1, learning_rate, types) ELSE s2

F_ForwardPass ==
    /\ status = "ok"
    /\ ~fwd.open
    /\ iter < F_MaxRun
    /\ LET lv == Feed(leaf, "p", F_FeedValue)
           r == F_Eval(expr, dfs_tuple_size_v(expr) - 1, dfs_final_tuple_t(expr), tuple, lv)
       IN  /\ leaf' = lv
           /\ fed' = fed \cup {"p"}
           /\ tuple' = r.tuple
           /\ result' = r.value
           /\ fwd' = [n |-> iter + 1, open |-> TRUE, leaf |-> lv, result |-> result]
    /\ last' = Op("ForwardPass", 0, 0, NoDelta)
    /\ UNCHANGED <<expr, status, iter>>

F_Backward(name, signed_rate) ==
    /\ status = "ok"
    /\ fwd.open
    /\ LET root == dfs_tuple_size_v(expr) - 1
           st == F_impl_BackwardPass([tuple |-> F_AddMyGrad(tuple, root, FromInt(1)),
                                      leaf |-> leaf],
                                     root, signed_rate, dfs_final_tuple_t(expr))
       IN  /\ leaf' = st.leaf
           /\ tuple' = st.tuple
    /\ iter' = iter + 1
    /\ fwd' = [fwd EXCEPT !.open = FALSE]
    /\ last' = Op(name, 0, 0, NoDelta)
    /\ UNCHANGED <<expr, fed, result, status>>

\* variant: the rate is passed on with its own sign
F_Minimize_ascent(learning_rate) == F_Backward("Minimize", learning_rate)

F_Minimize(learning_rate) == F_Backward("Minimize", FNeg(learning_rate))

F_Init ==
    /\ expr = F_Y
    /\ leaf = F_InitLeaf
    /\ fed = {}
    /\ tuple = [i \in 1..dfs_tuple_size_v(F_Y) |-> F_NewNode]
    /\ result = Zero
    /\ status = "ok"
    /\ iter = 0
    /\ last = Op("construct", 0, 0, NoDelta)
    /\ fwd = [n |-> 0, open |-> FALSE, leaf |-> F_InitLeaf, result |-> Zero]

F_Next ==
    \/ F_ForwardPass
    \/ F_Minimize(F_Rate)

F_Spec == F_Init /\ [][F_Next]_vars

(***************************************************************************)
(* Reference notions the claims are stated with.                           *)
(***************************************************************************)
\* the partial derivative of e with respect to the leaf x at the leaf
\* values lv, by the rules of calculus
RECURSIVE Partial(_, _, _)
Partial(e, x, lv) ==
    CASE impl_TerminalExpr(e) -> IF e.id = x THEN 1 ELSE 0
      [] e.kind = "AddExpr" -> Partial(e.first_expr, x, lv) + Partial(e.second_expr, x, lv)
      [] e.kind = "SubtractExpr" -> Partial(e.first_expr, x, lv) - Partial(e.second_expr, x, lv)
      [] e.kind = "MultiplyExpr" ->
            Partial(e.first_expr, x, lv) * Value(e.second_expr, lv)
                + Value(e.first_expr, lv) * Partial(e.second_expr, x, lv)
      [] e.kind = "NegateExpr" -> 0 - Partial(e.first_expr, x, lv)

RECURSIVE SumOver(_, _)
SumOver(S, f) ==
    IF S = {} THEN 0 ELSE LET i == CHOOSE j \in S : TRUE IN f[i] + SumOver(S \ {i}, f)

Slots == 0..(Len(tuple) - 1)
Types == dfs_final_tuple_t(expr)
Root == Len(tuple) - 1

\* the gradient the chain rule accumulates in slot I: 1 at the root, and in
\* every other slot the gradient of each parent slot times that parent's
\* recorded local gradient for this child
RECURSIVE ChainGrad(_)
ChainGrad(I) ==
    IF I = Root THEN 1
    ELSE SumOver({J \in (I + 1)..Root : Get(Types, J).child_one_v = I},
                 [J \in Slots |-> ChainGrad(J) * Get(tuple, J).first_local_grad])
         + SumOver({J \in (I + 1)..Root : Get(Types, J).child_two_v = I},
                   [J \in Slots |-> ChainGrad(J) * Get(tuple, J).second_local_grad])

\* the slots of the computation order that hold the Variable x
Occurrences(x) ==
    {I \in Slots : Get(Types, I).node = "TerminalNode" /\ Get(tuple, I).expr = x}

SignedRate == IF last.op = "Minimize" THEN 0 - last.arg ELSE last.arg
BackwardDone == last.op \in {"Minimize", "Maximize"} /\ status = "ok"
XX == MultiplyExpr(VariableExpr("x1"), VariableExpr("x1"))

(***************************************************************************)
(* C1: a Variable that occurs at k slots of the computation order is       *)
(* changed by one backward pass by the signed rate times the sum of the    *)
(* gradients accumulated in its k slots; for y = x1 * x1 one ForwardPass   *)
(* and Minimize(rate) change x1 by -rate * 2 * x1.                         *)
(***************************************************************************)
C1_SharedVariable ==
    BackwardDone =>
        /\ \A x \in VariableIds :
              last.delta[x] = SignedRate * SumOver(Occurrences(x), [I \in Slots |-> ChainGrad(I)])
        /\ (expr = XX /\ last.op = "Minimize") =>
              last.delta["x1"] = (0 - last.arg) * 2 * fwd.leaf["x1"]

C1_Witness ==
    /\ expr = XX
    /\ last.op = "Minimize"
    /\ Cardinality(Occurrences("x1")) = 2
    /\ last.arg = 3
    /\ last.delta["x1"] = -12

(***************************************************************************)
(* C2: after one ForwardPass and Minimize(rate), every Variable xi has     *)
(* changed by -rate times the partial derivative of the expression with    *)
(* respect to xi at the leaf values of that forward pass.                  *)
(***************************************************************************)
C2_GradientCorrect ==
    (last.op = "Minimize" /\ status = "ok" /\ fwd.n = 1) =>
        \A x \in VariableIds :
            last.delta[x] = (0 - last.arg) * Partial(expr, x, fwd.leaf)

C2_Witness ==
    /\ last.op = "Minimize"
    /\ fwd.n = 1
    /\ dfs_tuple_size_v(expr) = 5
    /\ last.delta["x1"] # 0
    /\ last.delta["x2"] # 0
    /\ last.delta["x1"] # last.delta["x2"]

(***************************************************************************)
(* C3: every child back-reference of an operation slot i is a slot index   *)
(* strictly less than i, and the last slot is the root expression.         *)
(***************************************************************************)
NodeOf(e) ==
    IF impl_TerminalExpr(e) THEN "TerminalNode"
    ELSE IF impl_UnaryExpr(e) THEN "UnaryNode" ELSE "BinaryNode"

C3_OrderInvariant ==
    /\ Len(Types) = Len(dfs_tuple(expr))
    /\ \A i \in 0..(Len(Types) - 1) :
          /\ Get(Types, i).node = NodeOf(Get(dfs_tuple(expr), i))
          /\ Get(Types, i).node \in {"UnaryNode", "BinaryNode"} =>
                Get(Types, i).child_one_v \in 0..(i - 1)
          /\ Get(Types, i).node = "BinaryNode" => Get(Types, i).child_two_v \in 0..(i - 1)
    /\ Get(dfs_tuple(expr), Len(Types) - 1) = expr

C3_Witness ==
    /\ impl_BinaryExpr(expr)
    /\ impl_TerminalExpr(expr.first_expr)
    /\ impl_BinaryExpr(expr.second_expr)
    /\ Get(Types, 4).child_one_v = 0
    /\ Get(Types, 4).child_two_v = 3
    /\ Get(Types, 3).child_one_v = 1
    /\ Get(Types, 3).child_two_v = 2

(***************************************************************************)
(* C4: after a ForwardPass, Minimize(rate) changes every Variable by       *)
(* -rate times its gradient of the root (seed 1) and Maximize(rate) by     *)
(* +rate times that gradient.  Stated for Et_test's optimizer.             *)
(***************************************************************************)
C4_SignedRate ==
    (last.op \in {"Minimize", "Maximize"} /\ status = "ok" /\ fwd.n = 1) =>
        \A x \in VariableIds : last.delta[x] = SignedRate * Partial(expr, x, fwd.leaf)

(***************************************************************************)
(* C5: a read of a Placeholder that was never fed, by GetPostResult (the   *)
(* expression's operator()) or by a ForwardPass that reaches it, ends in a *)
(* failure and not in a returned number.                                   *)
(***************************************************************************)
C5_UnfedPlaceholderFails ==
    (/\ last.op \in {"ForwardPass", "GetPostResult"}
     /\ ReadsPlaceholder(expr, "p")
     /\ "p" \notin fed) => status # "ok"

(***************************************************************************)
(* C6: Minimize or Maximize on an optimizer whose ForwardPass never ran    *)
(* ends in a failure and changes no Variable.                              *)
(***************************************************************************)
C6_BackwardBeforeForwardFails ==
    (last.op \in {"Minimize", "Maximize"} /\ fwd.n = 0) =>
        /\ status # "ok"
        /\ last.delta = NoDelta
        /\ \A x \in VariableIds : leaf[x] = InitLeaf[x]

(***************************************************************************)
(* C7: between the optimizer's operations (after construction, after a     *)
(* ForwardPass, after Minimize or Maximize has returned) the accumulated   *)
(* gradient of every slot is 0.                                            *)
(***************************************************************************)
C7_GradientsZero ==
    status = "ok" => \A i \in DOMAIN tuple : tuple[i].gradient = 0

C7_Witness ==
    /\ BackwardDone
    /\ iter = 2
    /\ fwd.n = 1
    /\ Len(tuple) = 3
    /\ last.delta["x1"] # 0
    /\ \A i \in DOMAIN tuple : tuple[i].gradient = 0

(***************************************************************************)
(* C8: every ForwardPass stores the expression's value at the leaves as    *)
(* fed for it, and when two ForwardPasses ran with no Minimize/Maximize    *)
(* between them, the backward passes that follow apply the gradient at the *)
(* leaves of the second one only.                                          *)
(***************************************************************************)
PreviousLeaf == [fwd.leaf EXCEPT !["p"] = fwd.prev_p]

C8_Refeed ==
    /\ fwd.n = 1 => result = Value(expr, fwd.leaf)
    /\ (fwd.run = 2 /\ BackwardDone) =>
          \A x \in VariableIds : last.delta[x] = SignedRate * Partial(expr, x, fwd.leaf)

C8_Witness ==
    /\ BackwardDone
    /\ fwd.run = 2
    /\ fwd.prev_p # fwd.leaf["p"]
    /\ result # Value(expr, PreviousLeaf)
    /\ \E x \in VariableIds : /\ Partial(expr, x, fwd.leaf) # Partial(expr, x, PreviousLeaf)
                              /\ last.delta[x] = SignedRate * Partial(expr, x, fwd.leaf)

(***************************************************************************)
(* C9: the stored pre-result is the one of the most recent ForwardPass in  *)
(* every state, whatever FeedValue, Minimize, Maximize, GetPreResult and   *)
(* GetPostResult ran since, and GetPreResult returns it.                   *)
(***************************************************************************)
C9_PreResultStored ==
    /\ result = fwd.result
    /\ last.op = "GetPreResult" => last.ret = fwd.result

C9_Witness ==
    /\ last.op = "GetPreResult"
    /\ fwd.n = 1
    /\ iter >= 1
    /\ last.ret = fwd.result
    /\ last.ret # Value(expr, leaf)

(***************************************************************************)
(* C10: GetPostResult returns the expression's value at the current        *)
(* leaves: a ForwardPass that follows it and changes no leaf stores the    *)
(* value GetPostResult returned.                                           *)
(***************************************************************************)
C10_PostResult ==
    [][(last.op = "GetPostResult" /\ last'.op = "ForwardPass" /\ leaf' = leaf)
          => result' = last.ret]_vars

C10_Witness ==
    /\ last.op = "GetPostResult"
    /\ fwd.n = 1
    /\ iter >= 1
    /\ last.ret # result
    /\ \E x \in VariableIds : leaf[x] # fwd.leaf[x]

(***************************************************************************)
(* C11: the length of the computation order is 1 for a terminal, one more  *)
(* than the operand's for a unary node, and one more than the sum of the   *)
(* operands' for a binary node (an operand that occurs twice counts        *)
(* twice); the optimizer's tuple has that many slots in every state.       *)
(***************************************************************************)
RECURSIVE OrderSize(_)
OrderSize(e) ==
    IF e.kind \in TerminalKinds THEN 1
    ELSE IF e.kind \in UnaryKinds THEN OrderSize(e.first_expr) + 1
    ELSE OrderSize(e.first_expr) + OrderSize(e.second_expr) + 1

C11_OrderSize ==
    /\ Len(dfs_tuple(expr)) = OrderSize(expr)
    /\ dfs_tuple_size_v(expr) = OrderSize(expr)
    /\ Len(dfs_final_tuple_t(expr)) = OrderSize(expr)
    /\ Len(tuple) = OrderSize(expr)

C11_Witness ==
    /\ expr = XX
    /\ Len(tuple) = 3
    /\ iter = 2
    /\ fwd.n = 1
    /\ last.op = "GetPostResult"

(***************************************************************************)
(* C12: a binary node whose sub-order starts at slot s has its first       *)
(* operand's subtree in slots s .. s+size(a)-1, its second operand's in    *)
(* the next size(b) slots and itself in slot s+size(a)+size(b), with child *)
(* indices s+size(a)-1 and s+size(a)+size(b)-1; a unary node follows its   *)
(* operand's subtree and its child index is its own slot minus 1.          *)
(***************************************************************************)
RECURSIVE Layout(_, _)
Layout(e, s) ==
    IF e.kind \in TerminalKinds THEN <<[at |-> s, e |-> e, one |-> -1, two |-> -1]>>
    ELSE IF e.kind \in UnaryKinds THEN
        LET na == OrderSize(e.first_expr)
        IN  Layout(e.first_expr, s) \o <<[at |-> s + na, e |-> e, one |-> s + na - 1, two |-> -1]>>
    ELSE
        LET na == OrderSize(e.first_expr)
            nb == OrderSize(e.second_expr)
        IN  Layout(e.first_expr, s) \o Layout(e.second_expr, s + na)
                \o <<[at |-> s + na + nb, e |-> e, one |-> s + na - 1, two |-> s + na + nb - 1]>>

C12_SlotLayout ==
    LET L == Layout(expr, 0)
    IN  /\ Len(L) = Len(Types)
        /\ \A i \in 1..Len(L) :
              /\ L[i].at = i - 1
              /\ L[i].e = dfs_tuple(expr)[i]
              /\ Types[i].child_one_v = L[i].one
              /\ Types[i].child_two_v = L[i].two

C12_Witness ==
    /\ last.op = "Minimize"
    /\ Len(Types) = 5
    /\ Get(Types, 4).node = "UnaryNode" /\ Get(Types, 4).child_one_v = 3
    /\ Get(Types, 3).node = "BinaryNode"
    /\ Get(Types, 3).child_one_v = 1 /\ Get(Types, 3).child_two_v = 2
    /\ Get(Types, 1).node = "UnaryNode" /\ Get(Types, 1).child_one_v = 0

(***************************************************************************)
(* C13: operator() of an expression built from Constants only returns the  *)
(* value of the same formula computed directly, each node's value being    *)
(* its operator applied to its operands' values.  Stated for namespace et. *)
(***************************************************************************)
RECURSIVE Formula(_, _)
Formula(e, lv) ==
    CASE e.kind = "ConstantExpr" -> lv[e.id]
      [] e.kind = "NegateExpr" -> 0 - Formula(e.first_expr, lv)
      [] e.kind = "AddExpr" -> Formula(e.first_expr, lv) + Formula(e.second_expr, lv)
      [] e.kind = "SubtractExpr" -> Formula(e.first_expr, lv) - Formula(e.second_expr, lv)
      [] e.kind = "MultiplyExpr" -> Formula(e.first_expr, lv) * Formula(e.second_expr, lv)

C13_ConstantValue ==
    last.op \in {"operator()", "b()"} =>
        /\ status = "ok"
        /\ last.ret = Formula(expr, et_Values)

Minimiser == [x1 |-> FromInt(-2), x2 |-> FromInt(-1)]

MinimumValue == FromRatio(-113, 10)

Closer ==
    \A x \in VariableIds :
        MagCmp(Distance(leaf[x], Minimiser[x]), Distance(fwd.leaf[x], Minimiser[x])) = -1

NoRise == FCmp(result, fwd.result) <= 0

\* two doubles of one sign and exponent whose significands differ by one
OneUlpApart(a, b) ==
    /\ a.s = b.s
    /\ a.e = b.e
    /\ Distance(a, b).m = <<1>>

\* |a - b| < 2^(-k)
Near(a, b, k) == MagCmp(Distance(a, b), [m |-> <<1>>, e |-> 0 - k]) = -1

C15_EveryIteration ==
    /\ last.op = "Minimize" => Closer
    /\ (last.op = "ForwardPass" /\ fwd.n >= 2) => NoRise

(***************************************************************************)
(* C15, as it holds in binary64: every one of the F_MaxRun iterations      *)
(* moves each Xi strictly closer to its minimiser; the pre-result does not *)
(* increase during the F_Iterations iterations of AutodiffTest, and a      *)
(* later pre-result exceeds the one before it by at most one unit in the   *)
(* last place; after F_MaxRun iterations X1, X2 and the value are within   *)
(* 2^-20 of -2, -1 and -11.3.                                              *)
(***************************************************************************)
C15_Descent ==
    /\ last.op = "Minimize" => Closer
    /\ (last.op = "ForwardPass" /\ fwd.n >= 2 /\ fwd.n <= F_Iterations) => NoRise
    /\ (last.op = "ForwardPass" /\ fwd.n >= 2) => NoRise \/ OneUlpApart(result, fwd.result)
    /\ iter = F_MaxRun =>
          /\ Near(leaf["x1"], Minimiser["x1"], 20)
          /\ Near(leaf["x2"], Minimiser["x2"], 20)
          /\ Near(result, MinimumValue, 20)

C15_Witness ==
    /\ iter = F_MaxRun
    /\ last.op = "Minimize"
    /\ Closer
    /\ FCmp(result, fwd.result) = 0
    /\ Near(leaf["x1"], Minimiser["x1"], 20)
    /\ ~Near(fwd.leaf["x1"], Minimiser["x1"], 30)
    /\ leaf["x2"] # fwd.leaf["x2"]

(***************************************************************************)
(* C16: the leaves have their constructed values when the optimizer is     *)
(* built; a step changes a Variable only if it is Minimize or Maximize,    *)
(* never changes a Constant, and changes a Placeholder only if it feeds it *)
(* (FeedValue, or the feed of ForwardPass).                                *)
(***************************************************************************)
C16_LeafFrame ==
    /\ leaf = InitLeaf
    /\ [][/\ \A x \in VariableIds :
                leaf'[x] # leaf[x] => last'.op \in {"Minimize", "Maximize"}
           /\ \A c \in ConstantIds : leaf'[c] = leaf[c]
           /\ leaf'["p"] # leaf["p"] => last'.op \in {"FeedValue", "ForwardPass"}]_vars

C16_Witness ==
    /\ BackwardDone
    /\ \E i \in DOMAIN tuple : tuple[i].expr = "c1"
    /\ leaf["x1"] # InitLeaf["x1"]
    /\ leaf["c1"] = InitLeaf["c1"]
    /\ leaf["p"] = 4
    /\ last.delta["x1"] # 0

(***************************************************************************)
(* C17: a step that is not a feed leaves the Placeholder's value and its   *)
(* fed state as they are, whatever number of Minimize/Maximize calls ran,  *)
(* and every ForwardPass and GetPostResult computes with that value.       *)
(* Stated for Et_test's optimizer, where FeedPlaceholders is a call of its *)
(* own.                                                                    *)
(***************************************************************************)
C17_FedValueStays ==
    [][/\ last'.op # "FeedPlaceholders" => (leaf'["p"] = leaf["p"] /\ fed' = fed)
       /\ (last'.op = "ForwardPass" /\ status' = "ok") => result' = Value(expr, leaf)
       /\ (last'.op = "GetPostResult" /\ status' = "ok") => last'.ret = Value(expr, leaf)]_vars

C17_Witness ==
    /\ last.op = "ForwardPass"
    /\ status = "ok"
    /\ iter = 2
    /\ ReadsPlaceholder(expr, "p")
    /\ leaf["p"] = 4
    /\ leaf["x1"] # InitLeaf["x1"]
    /\ result = Value(expr, leaf)

(***************************************************************************)
(* C18: whenever Minimize or Maximize follows a ForwardPass, in whatever   *)
(* iteration, the change of every Variable is the one an optimizer         *)
(* constructed anew on the same expression applies after a ForwardPass on  *)
(* the same leaf values with the same rate.                                *)
(***************************************************************************)
FreshDelta(x, lv, signed_rate) ==
    LET root == dfs_tuple_size_v(expr) - 1
        types == dfs_final_tuple_t(expr)
        r == Eval(expr, root, types, NewTuple(expr), lv)
        st == impl_BackwardPass([tuple |-> AddMyGrad(r.tuple, root, 1), leaf |-> lv,
                                 status |-> "ok"], root, signed_rate, types, "crash")
    IN  st.leaf[x] - lv[x]

C18_IterationsIndependent ==
    [][(last'.op \in {"Minimize", "Maximize"} /\ fwd.open /\ status' = "ok") =>
          \A x \in VariableIds :
              leaf'[x] - leaf[x] =
                  FreshDelta(x, fwd.leaf,
                             IF last'.op = "Minimize" THEN 0 - last'.arg ELSE last'.arg)]_vars

C18_Witness ==
    /\ BackwardDone
    /\ iter = 2
    /\ fwd.n = 1
    /\ fwd.leaf["x1"] # InitLeaf["x1"]
    /\ last.delta["x1"] # 0
    /\ last.delta["x1"] = FreshDelta("x1", fwd.leaf, SignedRate)
    /\ last.delta["x1"] # FreshDelta("x1", InitLeaf, SignedRate)

(***************************************************************************)
(* C19: in a backward pass no operation slot pushes its gradient into its  *)
(* operands' slots after a Variable's value has changed in that pass.      *)
(***************************************************************************)
C19_PushesBeforeUpdates ==
    last.op = "SetChildGrads" => ~fwd.changed

(***************************************************************************)
(* C20: the backward pass processes the slots in strictly decreasing       *)
(* order, each once; the gradient a slot holds when it is processed is the *)
(* sum of all pushes destined for it (its chain-rule gradient), and no     *)
(* push targets a slot processed earlier in the pass.                      *)
(***************************************************************************)
StepKinds == {"UpdateVariable", "SetChildGrads", "ResetGrad"}

C20_ReverseOrder ==
    /\ last.op \in StepKinds =>
          /\ fwd.processed = {J \in Slots : J >= last.arg}
          /\ fwd.steps = Cardinality(fwd.processed)
          /\ iter = last.arg - 1
          /\ last.ret = ChainGrad(last.arg)
          /\ (status = "ok") = (fwd.processed = Slots)
    /\ last.op = "SetChildGrads" =>
          /\ Get(Types, last.arg).child_one_v \in Slots \ fwd.processed
          /\ Get(Types, last.arg).node = "BinaryNode" =>
                Get(Types, last.arg).child_two_v \in Slots \ fwd.processed

C20_Witness ==
    /\ last.op = "UpdateVariable"
    /\ last.arg = 0
    /\ status = "ok"
    /\ Len(tuple) = 5
    /\ fwd.steps = 5
    /\ fwd.changed
    /\ last.ret # 0
    /\ Cardinality(Occurrences("x1")) = 2

(***************************************************************************)
(* C21: a ForwardPass writes the slots in increasing index order, each     *)
(* slot once per pass, and an operation slot only after all slots of its   *)
(* operands' subtrees have been written in that pass.                      *)
(***************************************************************************)
\* the slots of the subtree below slot I
SubtreeSlots(I) == {J \in Slots : J < I /\ J >= I + 1 - dfs_tuple_size_v(Get(dfs_tuple(expr), I))}

WrittenBefore(i) == {fwd.writes[j] : j \in 1..(i - 1)}

C21_WritesIncreasing ==
    /\ \A i \in DOMAIN fwd.writes :
          /\ fwd.writes[i] = i - 1
          /\ SubtreeSlots(fwd.writes[i]) \subseteq WrittenBefore(i)
    /\ (last.op \in {"Eval", "ForwardPass<I>"} /\ status = "ok") =>
          Len(fwd.writes) = dfs_tuple_size_v(expr)

(***************************************************************************)
(* C22: once a ForwardPass has run, every operation slot holds the local   *)
(* partial derivatives of its operator at the operands' values of that     *)
(* pass: Add (1, 1), Subtract (1, -1), Multiply (value of the second       *)
(* operand, value of the first), Negate (-1).                              *)
(***************************************************************************)
LocalPartials(e, lv) ==
    CASE e.kind = "AddExpr" -> <<1, 1>>
      [] e.kind = "SubtractExpr" -> <<1, -1>>
      [] e.kind = "MultiplyExpr" -> <<Value(e.second_expr, lv), Value(e.first_expr, lv)>>
      [] e.kind = "NegateExpr" -> <<-1, 0>>

C22_LocalPartials ==
    fwd.n = 1 =>
        \A I \in Slots :
            LET e == Get(dfs_tuple(expr), I)
            IN  ~impl_TerminalExpr(e) =>
                    /\ Get(tuple, I).first_local_grad = LocalPartials(e, fwd.leaf)[1]
                    /\ Get(tuple, I).second_local_grad = LocalPartials(e, fwd.leaf)[2]

C22_Witness ==
    /\ BackwardDone
    /\ expr = SubtractExpr(VariableExpr("x2"), MultiplyExpr(VariableExpr("x1"), VariableExpr("x2")))
    /\ leaf["x1"] # fwd.leaf["x1"]
    /\ Get(tuple, 3).first_local_grad = fwd.leaf["x2"]
    /\ Get(tuple, 3).second_local_grad = fwd.leaf["x1"]
    /\ Get(tuple, 4).second_local_grad = -1

(***************************************************************************)
(* C23: the local derivatives a ForwardPass records for a Divide or Power  *)
(* slot are well-defined, and the slot's Eval takes no reciprocal of zero, *)
(* whenever the second operand's value is non-zero.                        *)
(***************************************************************************)
C23_DerivativesDefined ==
    last.op = "ForwardPass" =>
        \A I \in Slots :
            LET e == Get(dfs_tuple(expr), I)
            IN  (/\ e.kind \in {"DivideExpr", "PowerExpr"}
                 /\ Q_Value(e.first_expr, leaf).k = "num"
                 /\ Q_Value(e.second_expr, leaf).k = "num"
                 /\ ~Q_IsZero(Q_Value(e.second_expr, leaf)))
                    => /\ ~Q_IsZero(Get(tuple, I).inverse_of)
                       /\ Q_Finite(Get(tuple, I).first_local_grad)
                       /\ Q_Finite(Get(tuple, I).second_local_grad)

(***************************************************************************)
(* The staged variant (src/unnamed/part_005): Eval records the local       *)
(* gradients, Backpass(learning_rate, vars...) walks the order once,       *)
(* adding every Variable slot's gradient to the Variable's _cache, and     *)
(* then calls SetValueAndResetCache on the Variables it was given.  The    *)
(* order has the layout of dfs_final_tuple_t.  Operation nodes hold their  *)
(* operands as const&, so after  auto Y = <expression>;  the operation     *)
(* nodes below the root are destroyed temporaries.  fwd also holds every   *)
(* Variable's _cache (cache), the Variables given to the last Backpass     *)
(* (vars), and what the reads of destroyed nodes did in the last Eval      *)
(* (ub).                                                                   *)
(***************************************************************************)
X1 == VariableExpr("x1")
X2 == VariableExpr("x2")
C1 == ConstantExpr("c1")
P == PlaceholderExpr("p")

\* expressions with an operation below the root, as the README's cost function
St_Nested ==
    {AddExpr(MultiplyExpr(X1, X1), X2),
     AddExpr(MultiplyExpr(X1, X2), P),
     SubtractExpr(X2, MultiplyExpr(C1, X1)),
     AddExpr(AddExpr(MultiplyExpr(X1, X1), MultiplyExpr(C1, X2)), P)}

\* the trainable Variables that occur in an expression
St_Variables(e) ==
    {dfs_tuple(e)[i].id : i \in {j \in 1..dfs_tuple_size_v(e) : impl_TrainableExpr(dfs_tuple(e)[j])}}

\* the expressions the optimizer is built for: they have something to train
St_Exprs == {e \in Exprs : St_Variables(e) # {}} \cup St_Nested

\* the declaration of e leaves destroyed operation nodes behind
St_HasTemporaries(e) ==
    \E i \in 1..(dfs_tuple_size_v(e) - 1) : ~impl_TerminalExpr(dfs_tuple(e)[i])

NoStaged == [cache |-> NoDelta, vars |-> {}, ub |-> "intact"] @@ NoForward

\* Eval<I>(tuple) of the expression classes; c = <<what a read of a destroyed
\* node does, the value its storage yields>>
RECURSIVE St_ExprEval(_, _, _, _, _, _, _)
St_ExprEval(e, I, types, t, lv, is_root, c) ==
    IF impl_TerminalExpr(e) THEN
        [value |-> lv[e.id], tuple |-> SetLocalGradsTerminal(t, I, e.id)]
    ELSE IF ~is_root /\ c[1] = "garbage" THEN
        [value |-> c[2],
         tuple |-> SetLocalGrads(t, I, "op", c[2], IF impl_BinaryExpr(e) THEN c[2] ELSE 0)]
    ELSE IF impl_UnaryExpr(e) THEN
        LET r1 == St_ExprEval(e.first_expr, Get(types, I).child_one_v, types, t, lv, FALSE, c)
        IN  [value |-> Apply(e, r1.value, 0),
             tuple |-> SetLocalGrads(r1.tuple, I, "op",
                                     first_local_grad_of(e, r1.value, 0), 0)]
    ELSE
        LET r1 == St_ExprEval(e.first_expr, Get(types, I).child_one_v, types, t, lv, FALSE, c)
            r2 == St_ExprEval(e.second_expr, Get(types, I).child_two_v, types, r1.tuple, lv,
                              FALSE, c)
        IN  [value |-> Apply(e, r1.value, r2.value),
             tuple |-> SetLocalGrads(r2.tuple, I, "op",
                                     first_local_grad_of(e, r1.value, r2.value),
                                     second_local_grad_of(e, r1.value, r2.value))]

\* GradientDescentOptimizer::FeedPlaceholders(PlFeed(pl, v))
St_FeedPlaceholders(pl, v) ==
    /\ status = "ok"
    /\ leaf' = Feed(leaf, pl, v)
    /\ fed' = fed \cup ({pl} \cap LeafIds)
    /\ last' = Op("FeedPlaceholders", 0, 0, NoDelta)
    /\ UNCHANGED <<expr, tuple, result, status, iter, fwd>>

\* GradientDescentOptimizer::Eval
St_Eval(c) ==
    /\ status = "ok"
    /\ iter < MaxIter
    /\ last' = Op("Eval", 0, 0, NoDelta)
    /\ IF c[1] = "crash"
       THEN /\ status' = "crashed"
            /\ UNCHANGED <<tuple, result, fwd>>
       ELSE LET r == St_ExprEval(expr, dfs_tuple_size_v(expr) - 1, dfs_final_tuple_t(expr),
                                 tuple, leaf, TRUE, c)
            IN  /\ tuple' = r.tuple
                /\ result' = r.value
                /\ fwd' = [fwd EXCEPT !.n = 1, !.open = TRUE, !.leaf = leaf,
                                      !.result = r.value, !.ub = c[1]]
                /\ UNCHANGED status
    /\ UNCHANGED <<expr, leaf, fed, iter>>

\* Node<E>::SetVariableCache: _expr->_cache += _gradient, for a Variable's slot
St_SetVariableCache(st, I, trainable, ub) ==
    LET me == Get(st.tuple, I)
    IN  IF ~trainable THEN st
        ELSE IF me.expr = "nullptr"
        THEN (IF ub = "crash" THEN [st EXCEPT !.status = "crashed"] ELSE st)
        ELSE [st EXCEPT !.cache[me.expr] = @ + me.gradient]

\* Node<E, I>::SetGrads and Node<E, I1, I2>::SetGrads
St_SetGrads(t, I, types) ==
    LET n == Get(types, I)
        me == Get(t, I)
        t1 == AddMyGrad(t, n.child_one_v, me.gradient * me.first_local_grad)
    IN  IF n.node = "BinaryNode"
        THEN AddMyGrad(t1, n.child_two_v, me.gradient * me.second_local_grad)
        ELSE t1

\* Node::ResetGradient
St_ResetGradient(t, I) == [t EXCEPT ![I + 1].gradient = 0]

RECURSIVE St_Helper_Backprop(_, _, _, _)
St_Helper_Backprop(st, I, types, ub) ==
    LET s0 == IF I = Len(st.tuple) - 1 THEN [st EXCEPT !.tuple[I + 1].gradient = 1] ELSE st
        n == Get(types, I)
        s1 == IF n.node = "TerminalNode" THEN St_SetVariableCache(s0, I, n.trainable, ub)
              ELSE [s0 EXCEPT !.tuple = St_SetGrads(s0.tuple, I, types)]
        s2 == [s1 EXCEPT !.tuple = St_ResetGradient(s1.tuple, I)]
    IN  IF s1.status = "crashed" THEN s1
        ELSE IF I > 0 THEN St_Helper_Backprop(s2, I - 1, types, ub)
        ELSE s2

\* VariableExpr::SetValueAndResetCache
St_SetValueAndResetCache(st, x, learning_rate) ==
    [st EXCEPT !.leaf[x] = @ - learning_rate * st.cache[x], !.cache[x] = 0]

\* _Helper_ApplyGradients: SetValueAndResetCache on each Variable given
St_Helper_ApplyGradients(st, learning_rate, vs) ==
    [st EXCEPT !.leaf = [x \in DOMAIN st.leaf |->
                            IF x \in vs
                            THEN St_SetValueAndResetCache(st, x, learning_rate).leaf[x]
                            ELSE st.leaf[x]],
               !.cache = [x \in VariableIds |->
                            IF x \in vs
                            THEN St_SetValueAndResetCache(st, x, learning_rate).cache[x]
                            ELSE st.cache[x]]]

\* GradientDescentOptimizer::Backpass(learning_rate, vars...)
St_Backpass(learning_rate, vs, ub) ==
    /\ status = "ok"
    /\ iter < MaxIter
    /\ LET s1 == St_Helper_Backprop([tuple |-> tuple, leaf |-> leaf, cache |-> fwd.cache,
                                     status |-> "ok"],
                                    dfs_tuple_size_v(expr) - 1, dfs_final_tuple_t(expr), ub)
           st == IF s1.status = "crashed" THEN s1
                 ELSE St_Helper_ApplyGradients(s1, learning_rate, vs)
       IN  /\ InRange(st.leaf)
           /\ leaf' = st.leaf
           /\ tuple' = st.tuple
           /\ status' = st.status
           /\ fwd' = [fwd EXCEPT !.cache = st.cache, !.vars = vs, !.open = FALSE]
           /\ last' = Op("Backpass", learning_rate, 0,
                         [x \in VariableIds |-> st.leaf[x] - leaf[x]])
    /\ iter' = iter + 1
    /\ UNCHANGED <<expr, fed, result>>

\* what the reads through the references to destroyed operands may do
St_EvalChoices ==
    IF St_HasTemporaries(expr) THEN (et_Dangling \X et_Garbage) ELSE {<<"intact", 0>>}

St_Init ==
    /\ expr \in St_Exprs
    /\ leaf = InitLeaf
    /\ fed = {}
    /\ tuple = NewTuple(expr)
    /\ result = 0
    /\ status = "ok"
    /\ iter = 0
    /\ last = Op("construct", 0, 0, NoDelta)
    /\ fwd = NoStaged

\* the driver feeds and evaluates once per iteration, as the README's loop
St_Next ==
    \/ \E v \in FeedValues : ~fwd.open /\ last.op # "FeedPlaceholders" /\ St_FeedPlaceholders("p", v)
    \/ \E c \in St_EvalChoices : ~fwd.open /\ St_Eval(c)
    \/ \E r \in Rates, vs \in SUBSET VariableIds, ub \in UbChoices : St_Backpass(r, vs, ub)

St_Spec == St_Init /\ [][St_Next]_vars

\* ForwardPass followed by Minimize(learning_rate) of namespace Et, on an
\* optimizer constructed for e with the leaves lv: the leaves it ends with
Et_Iteration(e, lv, learning_rate) ==
    LET root == dfs_tuple_size_v(e) - 1
        types == dfs_final_tuple_t(e)
        r == Eval(e, root, types, NewTuple(e), lv)
    IN  impl_BackwardPass([tuple |-> AddMyGrad(r.tuple, root, 1), leaf |-> lv,
                           status |-> "ok"],
                          root, 0 - learning_rate, types, "crash").leaf

\* the first Backpass of a run, called right after an Eval with every
\* Variable of the expression
St_FirstIteration ==
    /\ last.op = "Backpass"
    /\ iter = 1
    /\ fwd.n = 1
    /\ St_Variables(expr) \subseteq fwd.vars

(***************************************************************************)
(* C24: for the same expression, leaves and rate, Eval + Backpass(rate,    *)
(* every Variable of the expression) of the staged variant leaves every    *)
(* Variable with the value that ForwardPass + Minimize(rate) of the        *)
(* immediate variant leaves it with.                                       *)
(***************************************************************************)
C24_SameUpdate ==
    St_FirstIteration =>
        /\ status = "ok"
        /\ \A x \in VariableIds : leaf[x] = Et_Iteration(expr, fwd.leaf, last.arg)[x]

\* the same, for the runs in which no read of a destroyed node went wrong
C24_SameUpdateIntact ==
    (St_FirstIteration /\ fwd.ub = "intact") =>
        /\ status = "ok"
        /\ \A x \in VariableIds : leaf[x] = Et_Iteration(expr, fwd.leaf, last.arg)[x]

(***************************************************************************)
(* C25: in the staged variant, when Backpass(rate, vars...) has returned,  *)
(* the _cache of every Variable that occurs in the expression is zero, so  *)
(* that nothing staged is left for a later Backpass.                       *)
(***************************************************************************)
C25_CacheFlushed ==
    (last.op = "Backpass" /\ status = "ok" /\ fwd.n = 1) =>
        \A x \in St_Variables(expr) : fwd.cache[x] = 0

(***************************************************************************)
(* C26: a ForwardPass that throws on an unfed Placeholder changes no       *)
(* Variable value, no gradient and not the stored pre-result; it only      *)
(* assigns slots of the order.  A ForwardPass that succeeds assigns every  *)
(* slot and stores the value of the expression, whatever an earlier failed *)
(* call assigned, so the ForwardPass and Minimize that follow the feed act *)
(* on the state they would have met without the failed call.               *)
(***************************************************************************)
HolderOf(e) == IF impl_TerminalExpr(e) THEN e.id ELSE "op"

C26_FailedForwardPass ==
    [][last'.op = "ForwardPass" =>
          /\ leaf' = leaf
          /\ fed' = fed
          /\ \A i \in DOMAIN tuple : tuple'[i].gradient = tuple[i].gradient
          /\ IF status' = "bad_optional_access"
             THEN /\ result' = result
                  /\ fwd' = fwd
                  /\ \A i \in DOMAIN tuple :
                        tuple'[i].expr \in {tuple[i].expr, HolderOf(dfs_tuple(expr)[i])}
             ELSE /\ result' = Value(expr, leaf)
                  /\ \A i \in DOMAIN tuple : tuple'[i].expr = HolderOf(dfs_tuple(expr)[i])]_vars

\* a failed pass that has assigned some slots of the order and not others
C26_Witness ==
    /\ last.op = "ForwardPass"
    /\ status = "bad_optional_access"
    /\ "p" \notin fed
    /\ Get(tuple, Len(tuple) - 1).expr = "op"
    /\ \E i \in DOMAIN tuple : tuple[i].expr = "nullptr"

(***************************************************************************)
(* C27: building the computation order, ForwardPass and Minimize /         *)
(* Maximize each visit every slot of the order exactly once and then end:  *)
(* a walk in progress always has a next step, no slot is visited twice,    *)
(* a finished walk has taken size(root) steps, and every walk that has     *)
(* begun reaches its end.                                                  *)
(***************************************************************************)
WalkCounts ==
    LET size == dfs_tuple_size_v(expr)
    IN  /\ fwd.built = Len(tuple)
        /\ Len(tuple) <= size
        /\ (status = "building") = (Len(tuple) < size)
        /\ \A i, j \in DOMAIN fwd.writes : i # j => fwd.writes[i] # fwd.writes[j]
        /\ (status = "forward") = (fwd.todo # <<>>)
        /\ fwd.todo # <<>> \/ fwd.writes # <<>> => Len(fwd.writes) + Len(fwd.todo) = size
        /\ fwd.n = 1 => Len(fwd.writes) = size
        /\ "steps" \in DOMAIN fwd =>
              /\ fwd.steps = Cardinality(fwd.processed)
              /\ fwd.processed = (iter + 1)..(size - 1)
              /\ (status = "running") = (iter >= 0)
              /\ status = "ok" => fwd.steps = size

C27_WalksTerminate ==
    /\ []WalkCounts
    /\ (status # "ok") ~> (status = "ok")

\* all three walks of a five-slot expression have ended
C27_Witness ==
    /\ status = "ok"
    /\ dfs_tuple_size_v(expr) = 5
    /\ fwd.built = 5
    /\ Len(fwd.writes) = 5
    /\ "steps" \in DOMAIN fwd
    /\ fwd.steps = 5

(***************************************************************************)
(* C28: from the same state after a ForwardPass, Maximize(r) leaves every  *)
(* Variable, every slot and the pre-result as Minimize(-r) would leave     *)
(* them.  Stated for Et_test's optimizer, whose Minimize(-r) seeds the     *)
(* root with -(-r).                                                        *)
(***************************************************************************)
\* what Et_test's Minimize(learning_rate) makes of the current state
T_MinimizeOutcome(learning_rate) ==
    LET root == dfs_tuple_size_v(expr) - 1
        zeroed == [i \in DOMAIN tuple |-> [tuple[i] EXCEPT !.gradient = 0]]
    IN  Test_BackwardPass([tuple |-> AddMyGrad(zeroed, root, 0 - learning_rate), leaf |-> leaf],
                          root, dfs_final_tuple_t(expr), dfs_tuple(expr))

C28_MaximizeIsMinimizeNegated ==
    [][(last'.op = "Maximize" /\ status' = "ok" /\ fwd.n = 1) =>
          /\ leaf' = T_MinimizeOutcome(0 - last'.arg).leaf
          /\ tuple' = T_MinimizeOutcome(0 - last'.arg).tuple
          /\ result' = result]_vars

(***************************************************************************)
(* C29: a Minimize(rate) that directly follows a Minimize(rate), with no   *)
(* ForwardPass between them, changes every Variable by the same amount as  *)
(* the first: it uses the local gradients the last ForwardPass recorded,   *)
(* not the derivatives at the Variables' current values.                   *)
(***************************************************************************)
C29_SameDeltaTwice ==
    [][(/\ last.op = "Minimize"
        /\ last'.op = "Minimize"
        /\ last'.arg = last.arg
        /\ fwd.n = 1
        /\ status' = "ok") => last'.delta = last.delta]_vars

\* y = x1 * x1 from x1 = 2 with rate 2: both calls move x1 by -2 * (2 + 2),
\* where the derivative at the updated value -6 would give +24
C29_Witness ==
    /\ last.op = "Minimize"
    /\ iter = 2
    /\ expr = XX
    /\ fwd.leaf["x1"] = 2
    /\ last.delta["x1"] = -8
    /\ leaf["x1"] = -14

(***************************************************************************)
(* One ForwardPass followed by reads of the two results, for every         *)
(* expression of up to MaxDeep slots and for roots whose two operands are  *)
(* the same sub-expression.                                                *)
(***************************************************************************)
SharedExprs ==
    {BinaryExpr(k, m, m) : k \in BinaryKinds,
                           m \in {MultiplyExpr(X1, X2), SubtractExpr(X1, P), NegateExpr(X2)}}

ResultExprs == PassExprs \cup SharedExprs

ResultInit ==
    /\ expr \in ResultExprs
    /\ leaf = InitLeaf
    /\ fed = {}
    /\ tuple = NewTuple(expr)
    /\ result = 0
    /\ status = "ok"
    /\ iter = 0
    /\ last = Op("construct", 0, 0, NoDelta)
    /\ fwd = NoForward

ResultNext ==
    \/ \E f \in Feeds : fwd.n = 0 /\ ForwardPass(f[1], f[2])
    \/ fwd.n = 1 /\ GetPreResult
    \/ fwd.n = 1 /\ GetPostResult

ResultSpec == ResultInit /\ [][ResultNext]_vars

(***************************************************************************)
(* C30: the value a ForwardPass stores as the pass's result is the value   *)
(* operator() gives for the root on the same leaves, also when a           *)
(* sub-expression occurs twice: right after the pass GetPreResult and      *)
(* GetPostResult return the same number.                                   *)
(***************************************************************************)
C30_PreEqualsPost ==
    /\ fwd.n = 1 => result = Value(expr, leaf)
    /\ last.op \in {"GetPreResult", "GetPostResult"} =>
          /\ last.ret = result
          /\ last.ret = Value(expr, leaf)

\* (x1 - p) * (x1 - p) with x1 = 2 and p = 4
C30_Witness ==
    /\ last.op = "GetPreResult"
    /\ expr = MultiplyExpr(SubtractExpr(X1, P), SubtractExpr(X1, P))
    /\ leaf["p"] = 4
    /\ last.ret = 4
====
